---- MODULE Spec2Model ----
(***************************************************************************)
(* Scanner-output normalisation (normalize.py), host-report parsing        *)
(* (normalize.py, utils/build_findings.py), risk scoring                   *)
(* (score_and_report.py), the scan orchestration (main.py, scanners/),     *)
(* the cloud-output conversion (convert_prowler_output.py), the two        *)
(* grading schemes and the compliance mapper, as state machines.           *)
(*                                                                         *)
(* Text is a sequence of one-character strings, so that strip, lower,      *)
(* split, join and substring search are computed and not assumed.          *)
(* A JSON value is a record [k, v]: k is the JSON type, v the payload.     *)
(* A JSON object is the sequence of its [key, val] members in file order   *)
(* (Python dicts keep insertion order).                                    *)
(***************************************************************************)
EXTENDS Integers, Sequences, FiniteSets, TLC

VARIABLES
    \* ---- normalize.py: normalize_files / main
    inputs,      \* the input files handled so far, in command-line order
    normalized,  \* normalize_files: normalized (list of Unified Findings)
    seen,        \* normalize_files: seen (set of dedupe keys)
    warnings,    \* "[warn] Could not read ..." lines on stderr, as file names
    pc,          \* "idle" | "normalizing" | "raised" | "written" | "write_failed"
    \* ---- _norm_severity / _norm_status applied to one token
    token, tok_sev, tok_status, tok_uf, tok_pc,
    \* ---- one host-report line through both host parsers
    line, lynis_uf, bf_findings, line_pc,
    \* ---- score_and_report.py: main
    findings,    \* json.load(fh)
    cleaned,     \* scored findings
    summary,     \* risk_summary.json: score, grade
    assets_top,  \* template input: top risky assets
    spc,         \* "idle" | "start" | "loaded" | "scored" | "summarized" | "reported"
    \* ---- main.py: main
    scan_pc,     \* "idle" | "cloud" | "host" | "summary" | "done" | "aborted"
    scan_log,    \* what main printed, in order
    scan_rc,     \* returncode of the last scanner sub-process, -1 before any
    scan_files,  \* reports/: aws_scan.json, lynis-report.dat, combined_summary.json
    \* ---- convert_prowler_output.py: main; build_findings.py: load_aws_findings
    conv_file,   \* reports/aws_scan.json: [exists, parses, data]
    conv_hist,   \* the file after each conversion run
    aws_loaded,  \* load_aws_findings(): findings
    conv_pc,     \* "idle" | "ready" | "converted" | "loaded"
    \* ---- the two grading schemes on one list of severities
    sev_list, grades, grade_pc,
    \* ---- the compliance mapper on one record
    cm_in, cm_out, cm_pc

vars == <<inputs, normalized, seen, warnings, pc,
          token, tok_sev, tok_status, tok_uf, tok_pc,
          line, lynis_uf, bf_findings, line_pc,
          findings, cleaned, summary, assets_top, spc,
          scan_pc, scan_log, scan_rc, scan_files,
          conv_file, conv_hist, aws_loaded, conv_pc,
          sev_list, grades, grade_pc,
          cm_in, cm_out, cm_pc>>

normVars  == <<inputs, normalized, seen, warnings, pc>>
tokVars   == <<token, tok_sev, tok_status, tok_uf, tok_pc>>
lineVars  == <<line, lynis_uf, bf_findings, line_pc>>
scoreVars == <<findings, cleaned, summary, assets_top, spc>>
scanVars  == <<scan_pc, scan_log, scan_rc, scan_files>>
convVars  == <<conv_file, conv_hist, aws_loaded, conv_pc>>
gradeVars == <<sev_list, grades, grade_pc>>
cmVars    == <<cm_in, cm_out, cm_pc>>
extVars   == <<scanVars, convVars, gradeVars, cmVars>>
coreVars  == <<normVars, tokVars, lineVars, scoreVars>>

(***************************************************************************)
(* Text                                                                    *)
(***************************************************************************)
UpperLetters == <<"A","B","C","D","E","F","G","H","I","J","K","L","M","N","O","P","Q","R","S","T","U","V","W","X","Y","Z">>
LowerLetters == <<"a","b","c","d","e","f","g","h","i","j","k","l","m","n","o","p","q","r","s","t","u","v","w","x","y","z">>
Digits       == <<"0","1","2","3","4","5","6","7","8","9">>

\* str.lower() on one character
LowerTable == [i \in 1..26 |-> LowerLetters[i]]
UpperIndex == [c \in {UpperLetters[i] : i \in 1..26} |->
                 CHOOSE i \in 1..26 : UpperLetters[i] = c]
LowerChar(c) == IF c \in DOMAIN UpperIndex THEN LowerTable[UpperIndex[c]] ELSE c

\* str.lower()
Lower(s) == [i \in 1..Len(s) |-> LowerChar(s[i])]

IsSpace(c) == c \in {" ", "\t"}

\* str.strip()
Strip(s) ==
    LET ink == {i \in 1..Len(s) : ~IsSpace(s[i])}
    IN  IF ink = {} THEN <<>>
        ELSE SubSeq(s, CHOOSE i \in ink : \A j \in ink : i <= j,
                       CHOOSE i \in ink : \A j \in ink : i >= j)

\* str.startswith(p)
StartsWith(s, p) == Len(s) >= Len(p) /\ SubSeq(s, 1, Len(p)) = p

\* p in s
Contains(s, p) ==
    \E i \in 0..(Len(s) - Len(p)) : SubSeq(s, i + 1, i + Len(p)) = p

\* s.split(c), c one character: part n lies between separators n-1 and n
Split(s, c) ==
    LET seps   == {i \in 1..Len(s) : s[i] = c}
        sep(n) == IF n = 0 THEN 0
                  ELSE IF n > Cardinality(seps) THEN Len(s) + 1
                  ELSE CHOOSE i \in seps : Cardinality({j \in seps : j < i}) = n - 1
    IN  [n \in 1..(Cardinality(seps) + 1) |-> SubSeq(s, sep(n - 1) + 1, sep(n) - 1)]

\* s.split(c, 1)
Split1(s, c) ==
    IF \E i \in 1..Len(s) : s[i] = c
    THEN LET i == CHOOSE i \in 1..Len(s) : s[i] = c /\ \A j \in 1..(i - 1) : s[j] # c
         IN  <<SubSeq(s, 1, i - 1), SubSeq(s, i + 1, Len(s))>>
    ELSE <<s>>

\* sep.join(parts)
RECURSIVE Join(_, _)
Join(parts, sep) ==
    IF parts = <<>> THEN <<>>
    ELSE IF Len(parts) = 1 THEN parts[1]
    ELSE parts[1] \o sep \o Join(Tail(parts), sep)

\* str(n) for an int n >= 0
RECURSIVE StrOfInt(_)
StrOfInt(n) ==
    IF n < 10 THEN <<Digits[n + 1]>>
    ELSE StrOfInt(n \div 10) \o <<Digits[(n % 10) + 1]>>

\* repr(x) of a float x >= 0 held in hundredths: 1.0, 0.5, 0.25
FloatStr(h) ==
    StrOfInt(h \div 100) \o <<".">> \o
    (IF h % 10 = 0 THEN <<Digits[((h % 100) \div 10) + 1]>>
     ELSE <<Digits[((h % 100) \div 10) + 1], Digits[(h % 10) + 1]>>)

(***************************************************************************)
(* JSON values as Python sees them after json.loads                        *)
(***************************************************************************)
None     == [k |-> "none", v |-> 0]
Str(s)   == [k |-> "str",  v |-> s]
Num(n)   == [k |-> "int",  v |-> n]
\* a float, held in hundredths: Float(150) is 1.5
Float(h) == [k |-> "float", v |-> h]
List(xs) == [k |-> "list", v |-> xs]
Dict(ms) == [k |-> "dict", v |-> ms]
M(key, val) == [key |-> key, val |-> val]

\* bool(x)
Truthy(x) ==
    CASE x.k = "none" -> FALSE
      [] x.k = "int"  -> x.v # 0
      [] x.k = "float" -> x.v # 0
      [] OTHER        -> x.v # <<>>

\* a or b
Or(a, b) == IF Truthy(a) THEN a ELSE b

\* key in record
HasKey(record, key) == \E i \in 1..Len(record) : record[i].key = key

\* record.get(key)
Get(record, key) ==
    IF HasKey(record, key)
    THEN record[CHOOSE i \in 1..Len(record) : record[i].key = key].val
    ELSE None

\* list(record.keys())
RECURSIVE Keys(_)
Keys(record) ==
    IF record = <<>> THEN <<>> ELSE <<Head(record).key>> \o Keys(Tail(record))

\* json.dumps(x): ", " and ": " separators; the sampled text holds no
\* character that json.dumps escapes.
RECURSIVE JsonDumps(_)
RECURSIVE JsonDumpsItems(_)
RECURSIVE JsonDumpsMembers(_)
JsonDumpsItems(xs) ==
    IF xs = <<>> THEN <<>> ELSE <<JsonDumps(Head(xs))>> \o JsonDumpsItems(Tail(xs))
JsonDumpsMembers(ms) ==
    IF ms = <<>> THEN <<>>
    ELSE <<<<"\"">> \o Head(ms).key \o <<"\"",":"," ">> \o JsonDumps(Head(ms).val)>>
         \o JsonDumpsMembers(Tail(ms))
JsonDumps(x) ==
    CASE x.k = "none" -> <<"n","u","l","l">>
      [] x.k = "int"  -> StrOfInt(x.v)
      [] x.k = "float" -> FloatStr(x.v)
      [] x.k = "str"  -> <<"\"">> \o x.v \o <<"\"">>
      [] x.k = "list" -> <<"[">> \o Join(JsonDumpsItems(x.v), <<","," ">>) \o <<"]">>
      [] x.k = "dict" -> <<"{">> \o Join(JsonDumpsMembers(x.v), <<","," ">>) \o <<"}">>

\* repr(x), as str(x) prints a list or a dict
RECURSIVE PyRepr(_)
RECURSIVE PyReprItems(_)
RECURSIVE PyReprMembers(_)
PyReprItems(xs) ==
    IF xs = <<>> THEN <<>> ELSE <<PyRepr(Head(xs))>> \o PyReprItems(Tail(xs))
PyReprMembers(ms) ==
    IF ms = <<>> THEN <<>>
    ELSE <<<<"'">> \o Head(ms).key \o <<"'",":"," ">> \o PyRepr(Head(ms).val)>>
         \o PyReprMembers(Tail(ms))
PyRepr(x) ==
    CASE x.k = "none" -> <<"N","o","n","e">>
      [] x.k = "int"  -> StrOfInt(x.v)
      [] x.k = "float" -> FloatStr(x.v)
      [] x.k = "str"  -> <<"'">> \o x.v \o <<"'">>
      [] x.k = "list" -> <<"[">> \o Join(PyReprItems(x.v), <<","," ">>) \o <<"]">>
      [] x.k = "dict" -> <<"{">> \o Join(PyReprMembers(x.v), <<","," ">>) \o <<"}">>

\* str(x)
PyStr(x) == IF x.k = "str" THEN x.v ELSE PyRepr(x)

(***************************************************************************)
(* normalize.py: maps and helpers                                          *)
(***************************************************************************)
SEVERITY_MAP == <<
    <<<<"c","r","i","t","i","c","a","l">>, <<"c","r","i","t","i","c","a","l">>>>, <<<<"c","r","i","t">>, <<"c","r","i","t","i","c","a","l">>>>,
    <<<<"h","i","g","h">>, <<"h","i","g","h">>>>,
    <<<<"m","e","d","i","u","m">>, <<"m","e","d","i","u","m">>>>, <<<<"m","e","d">>, <<"m","e","d","i","u","m">>>>,
    <<<<"l","o","w">>, <<"l","o","w">>>>,
    <<<<"i","n","f","o","r","m","a","t","i","o","n","a","l">>, <<"i","n","f","o">>>>, <<<<"i","n","f","o">>, <<"i","n","f","o">>>>, <<<<"n","o","n","e">>, <<"i","n","f","o">>>>,
    <<<<"5">>, <<"c","r","i","t","i","c","a","l">>>>, <<<<"4">>, <<"h","i","g","h">>>>, <<<<"3">>, <<"m","e","d","i","u","m">>>>,
    <<<<"2">>, <<"l","o","w">>>>, <<<<"1">>, <<"i","n","f","o">>>>, <<<<"0">>, <<"i","n","f","o">>>> >>

STATUS_MAP == <<
    <<<<"p","a","s","s">>, <<"p","a","s","s">>>>, <<<<"o","k">>, <<"p","a","s","s">>>>, <<<<"p","a","s","s","e","d">>, <<"p","a","s","s">>>>,
    <<<<"s","u","c","c","e","s","s">>, <<"p","a","s","s">>>>,
    <<<<"f","a","i","l">>, <<"f","a","i","l">>>>, <<<<"f","a","i","l","e","d">>, <<"f","a","i","l">>>>, <<<<"e","r","r","o","r">>, <<"f","a","i","l">>>>,
    <<<<"w","a","r","n","i","n","g">>, <<"w","a","r","n">>>>, <<<<"w","a","r","n">>, <<"w","a","r","n">>>>,
    <<<<"i","n","f","o">>, <<"i","n","f","o">>>>, <<<<"m","a","n","u","a","l">>, <<"i","n","f","o">>>>,
    <<<<"n","o","t","_","a","p","p","l","i","c","a","b","l","e">>, <<"i","n","f","o">>>>, <<<<"n","a">>, <<"i","n","f","o">>>> >>

Severities == {<<"c","r","i","t","i","c","a","l">>, <<"h","i","g","h">>, <<"m","e","d","i","u","m">>, <<"l","o","w">>, <<"i","n","f","o">>}
Statuses   == {<<"p","a","s","s">>, <<"f","a","i","l">>, <<"w","a","r","n">>, <<"i","n","f","o">>}

\* map.get(key, default) on a table of <<key, value>> rows
MapGet(map, key, default) ==
    IF \E i \in 1..Len(map) : map[i][1] = key
    THEN map[CHOOSE i \in 1..Len(map) : map[i][1] = key][2]
    ELSE default

NowIso == <<"N","O","W">>

TextKeys == <<<<"t","e","x","t">>, <<"T","e","x","t">>, <<"d","e","s","c">>, <<"D","e","s","c">>, <<"m","e","s","s","a","g","e">>, <<"M","e","s","s","a","g","e">>>>

\* the first text-like member of a dict, as _s looks for it
RECURSIVE FirstText(_, _)
FirstText(x, keys) ==
    IF keys = <<>> THEN None
    ELSE LET v == Get(x, Head(keys))
         IN  IF v.k = "str" /\ Strip(v.v) # <<>> THEN Str(Strip(v.v))
             ELSE FirstText(x, Tail(keys))

RECURSIVE _s(_)
RECURSIVE SParts(_)
\* [p for p in (_s(i) for i in x) if p]
SParts(xs) ==
    IF xs = <<>> THEN <<>>
    ELSE LET p == _s(Head(xs))
         IN  (IF Truthy(p) THEN <<p.v>> ELSE <<>>) \o SParts(Tail(xs))
_s(x) ==
    CASE x.k = "none" -> None
      [] x.k = "int"  -> Str(StrOfInt(x.v))
      [] x.k = "float" -> Str(FloatStr(x.v))
      [] x.k = "dict" ->
            IF FirstText(x.v, TextKeys) # None THEN FirstText(x.v, TextKeys)
            ELSE Str(JsonDumps(x))
      [] x.k = "list" ->
            IF SParts(x.v) # <<>> THEN Str(Join(SParts(x.v), <<";"," ">>)) ELSE None
      [] x.k = "str"  ->
            IF Strip(x.v) # <<>> THEN Str(Strip(x.v)) ELSE None

\* _norm_severity without .lower()
_norm_severity_cased(value) ==
    IF ~Truthy(value) THEN <<"i","n","f","o">>
    ELSE LET v == Strip(PyStr(value))
         IN  MapGet(SEVERITY_MAP, v, IF v \in Severities THEN v ELSE <<"i","n","f","o">>)

_norm_severity(value) ==
    IF ~Truthy(value) THEN <<"i","n","f","o">>
    ELSE LET v == Lower(Strip(PyStr(value)))
         IN  MapGet(SEVERITY_MAP, v, IF v \in Severities THEN v ELSE <<"i","n","f","o">>)

_norm_status(value) ==
    IF ~Truthy(value) THEN <<"i","n","f","o">>
    ELSE LET v == Lower(Strip(PyStr(value)))
         IN  MapGet(STATUS_MAP, v, IF v \in Statuses THEN v ELSE <<"i","n","f","o">>)

_mk_finding(source, scanner, asset, service, control_id, title, description, status, severity, timestamp, raw) ==
    [ source      |-> Or(source, Str(<<"u","n","k","n","o","w","n">>)),
      scanner     |-> Or(scanner, Str(<<"u","n","k","n","o","w","n">>)),
      asset       |-> _s(asset),
      service     |-> _s(service),
      control_id  |-> _s(control_id),
      title       |-> _s(title),
      description |-> _s(description),
      status      |-> Str(_norm_status(status)),
      severity    |-> Str(_norm_severity(severity)),
      timestamp   |-> Or(timestamp, Str(NowIso)),
      raw         |-> raw ]

(***************************************************************************)
(* normalize.py: adapters                                                  *)
(***************************************************************************)
\* adapt_prowler with the title defaulted to the control id
adapt_prowler_titled(record) ==
    _mk_finding(
        Str(<<"a","w","s">>),
        Str(<<"p","r","o","w","l","e","r">>),
        Or(Get(record, <<"r","e","s","o","u","r","c","e">>), Or(Get(record, <<"a","c","c","o","u","n","t","_","i","d">>), Get(record, <<"A","C","C","O","U","N","T","_","I","D">>))),
        Or(Get(record, <<"s","e","r","v","i","c","e">>), Get(record, <<"S","e","r","v","i","c","e">>)),
        Or(Get(record, <<"c","h","e","c","k","_","i","d">>), Or(Get(record, <<"C","o","n","t","r","o","l","I","d">>), Get(record, <<"I","d">>))),
        Or(Get(record, <<"c","h","e","c","k","_","t","i","t","l","e">>), Or(Get(record, <<"T","i","t","l","e">>), Or(Get(record, <<"C","h","e","c","k","T","i","t","l","e">>),
           Or(Get(record, <<"c","h","e","c","k","_","i","d">>), Or(Get(record, <<"C","o","n","t","r","o","l","I","d">>), Get(record, <<"I","d">>)))))),
        Or(Get(record, <<"d","e","s","c","r","i","p","t","i","o","n">>), Get(record, <<"D","e","s","c","r","i","p","t","i","o","n">>)),
        Or(Get(record, <<"s","t","a","t","u","s">>), Get(record, <<"S","t","a","t","u","s">>)),
        Or(Get(record, <<"s","e","v","e","r","i","t","y">>), Get(record, <<"S","e","v","e","r","i","t","y">>)),
        Or(Get(record, <<"t","i","m","e","s","t","a","m","p">>), Get(record, <<"T","i","m","e","s","t","a","m","p">>)),
        record)

adapt_prowler(record) ==
    _mk_finding(
        Str(<<"a","w","s">>),
        Str(<<"p","r","o","w","l","e","r">>),
        Or(Get(record, <<"r","e","s","o","u","r","c","e">>), Or(Get(record, <<"a","c","c","o","u","n","t","_","i","d">>), Get(record, <<"A","C","C","O","U","N","T","_","I","D">>))),
        Or(Get(record, <<"s","e","r","v","i","c","e">>), Get(record, <<"S","e","r","v","i","c","e">>)),
        Or(Get(record, <<"c","h","e","c","k","_","i","d">>), Or(Get(record, <<"C","o","n","t","r","o","l","I","d">>), Get(record, <<"I","d">>))),
        Or(Get(record, <<"c","h","e","c","k","_","t","i","t","l","e">>), Or(Get(record, <<"T","i","t","l","e">>), Get(record, <<"C","h","e","c","k","T","i","t","l","e">>))),
        Or(Get(record, <<"d","e","s","c","r","i","p","t","i","o","n">>), Get(record, <<"D","e","s","c","r","i","p","t","i","o","n">>)),
        Or(Get(record, <<"s","t","a","t","u","s">>), Get(record, <<"S","t","a","t","u","s">>)),
        Or(Get(record, <<"s","e","v","e","r","i","t","y">>), Get(record, <<"S","e","v","e","r","i","t","y">>)),
        Or(Get(record, <<"t","i","m","e","s","t","a","m","p">>), Get(record, <<"T","i","m","e","s","t","a","m","p">>)),
        record)

adapt_lynis(record) ==
    LET service == Or(Get(record, <<"c","a","t","e","g","o","r","y">>), Or(Get(record, <<"g","r","o","u","p">>), Str(<<"l","i","n","u","x">>)))
        title   == Or(Get(record, <<"t","i","t","l","e">>), Or(Get(record, <<"t","e","s","t">>), Get(record, <<"t","e","s","t","_","i","d">>)))
    IN  _mk_finding(
            Str(<<"l","i","n","u","x">>),
            Str(<<"l","y","n","i","s">>),
            Or(Get(record, <<"h","o","s","t">>), Or(Get(record, <<"h","o","s","t","n","a","m","e">>), Get(record, <<"n","o","d","e">>))),
            service,
            Or(Get(record, <<"t","e","s","t","_","i","d">>), Or(Get(record, <<"i","d">>), Get(record, <<"c","o","n","t","r","o","l","_","i","d">>))),
            title,
            Or(Get(record, <<"d","e","s","c","r","i","p","t","i","o","n">>), Or(Get(record, <<"d","e","t","a","i","l">>), title)),
            Or(Get(record, <<"s","t","a","t","u","s">>), Get(record, <<"r","e","s","u","l","t">>)),
            Or(Get(record, <<"s","e","v","e","r","i","t","y">>), Get(record, <<"l","e","v","e","l">>)),
            Or(Get(record, <<"t","i","m","e","s","t","a","m","p">>), Get(record, <<"t","i","m","e">>)),
            record)

(***************************************************************************)
(* normalize.py: adapter routing and dedupe key                            *)
(***************************************************************************)
\* "prowler" in json.dumps(record).lower()
MentionsProwler(record) == Contains(Lower(JsonDumps(Dict(record))), <<"p","r","o","w","l","e","r">>)

\* s = " ".join(record.keys()).lower(); any(k in s for k in (...))
HostLikeKeys(record) ==
    LET s == Lower(Join(Keys(record), <<" ">>))
    IN  \E k \in {<<"h","o","s","t">>, <<"h","o","s","t","n","a","m","e">>, <<"s","s","h">>, <<"p","a","m">>, <<"s","y","s","c","t","l">>} : Contains(s, k)

\* pick_adapter with the host-like key names looked at before the source field
pick_adapter_hostfirst(record) ==
    IF HasKey(record, <<"c","h","e","c","k","_","i","d">>) \/ HasKey(record, <<"c","h","e","c","k","_","t","i","t","l","e">>)
       \/ MentionsProwler(record)
    THEN "prowler"
    ELSE IF HasKey(record, <<"t","e","s","t","_","i","d">>) \/ HasKey(record, <<"l","y","n","i","s">>)
            \/ Get(record, <<"s","c","a","n","n","e","r">>) = Str(<<"l","y","n","i","s">>)
    THEN "lynis"
    ELSE IF HostLikeKeys(record) THEN "lynis"
    ELSE LET src == Or(Get(record, <<"s","o","u","r","c","e">>), Str(<<>>))
         IN  IF src.k # "str" THEN "raise"
             ELSE IF Lower(src.v) = <<"a","w","s">> THEN "prowler"
             ELSE IF Lower(src.v) = <<"l","i","n","u","x">> THEN "lynis"
             ELSE "prowler"

\* "prowler", "lynis", or "raise": (record.get("source") or "").lower() raises
\* AttributeError when the source field is truthy and not a str
pick_adapter(record) ==
    IF HasKey(record, <<"c","h","e","c","k","_","i","d">>) \/ HasKey(record, <<"c","h","e","c","k","_","t","i","t","l","e">>)
       \/ MentionsProwler(record)
    THEN "prowler"
    ELSE IF HasKey(record, <<"t","e","s","t","_","i","d">>) \/ HasKey(record, <<"l","y","n","i","s">>)
            \/ Get(record, <<"s","c","a","n","n","e","r">>) = Str(<<"l","y","n","i","s">>)
    THEN "lynis"
    ELSE LET src == Or(Get(record, <<"s","o","u","r","c","e">>), Str(<<>>))
         IN  IF src.k # "str" THEN "raise"
             ELSE IF Lower(src.v) = <<"a","w","s">> THEN "prowler"
             ELSE IF Lower(src.v) = <<"l","i","n","u","x">> THEN "lynis"
             ELSE IF HostLikeKeys(record) THEN "lynis"
             ELSE "prowler"

\* f.get(field) or ""
KeyPart(x) == IF Truthy(x) THEN x.v ELSE <<>>

\* the text that make_dedupe_key hashes
KeyText(f) ==
    Join(<<KeyPart(f.source), KeyPart(f.scanner), KeyPart(f.asset),
           KeyPart(f.service), KeyPart(f.control_id), KeyPart(f.title),
           KeyPart(f.status)>>, <<"|">>)

\* hashlib.sha256(...).hexdigest(): distinct texts get distinct digests
Sha256(text) == <<"sha256", text>>

make_dedupe_key(f) == Sha256(KeyText(f))

(***************************************************************************)
(* normalize.py: parse_lynis_dat                                           *)
(***************************************************************************)
\* _rec keeping the second pipe segment only
_rec_second_segment(v, host, title, status, severity) ==
    LET parts   == Split(v, "|")
        hasCode == /\ Contains(v, <<"|">>)
                   /\ parts[1] # <<>>
                   /\ ~StartsWith(parts[1], <<"t","e","x","t",":">>)
        code    == IF hasCode THEN Str(parts[1]) ELSE None
        rest    == Strip(parts[2])
        msg     == IF hasCode THEN (IF rest # <<>> THEN rest ELSE parts[1]) ELSE v
    IN  << M(<<"s","c","a","n","n","e","r">>, Str(<<"l","y","n","i","s">>)),
           M(<<"h","o","s","t">>, host),
           M(<<"c","a","t","e","g","o","r","y">>, Str(<<"l","i","n","u","x">>)),
           M(<<"t","e","s","t","_","i","d">>, code),
           M(<<"t","i","t","l","e">>, Str(title)),
           M(<<"d","e","s","c","r","i","p","t","i","o","n">>, Str(msg)),
           M(<<"s","t","a","t","u","s">>, Str(status)),
           M(<<"s","e","v","e","r","i","t","y">>, Str(severity)),
           M(<<"t","i","m","e","s","t","a","m","p">>, None) >>

\* parse_lynis_dat._rec, with the closure's v and host as parameters
_rec(v, host, title, status, severity) ==
    LET parts   == Split(v, "|")
        hasCode == /\ Contains(v, <<"|">>)
                   /\ parts[1] # <<>>
                   /\ ~StartsWith(parts[1], <<"t","e","x","t",":">>)
        code    == IF hasCode THEN Str(parts[1]) ELSE None
        rest    == Strip(Join(Tail(parts), <<"|">>))
        msg     == IF hasCode THEN (IF rest # <<>> THEN rest ELSE parts[1]) ELSE v
    IN  << M(<<"s","c","a","n","n","e","r">>, Str(<<"l","y","n","i","s">>)),
           M(<<"h","o","s","t">>, host),
           M(<<"c","a","t","e","g","o","r","y">>, Str(<<"l","i","n","u","x">>)),
           M(<<"t","e","s","t","_","i","d">>, code),
           M(<<"t","i","t","l","e">>, Str(title)),
           M(<<"d","e","s","c","r","i","p","t","i","o","n">>, Str(msg)),
           M(<<"s","t","a","t","u","s">>, Str(status)),
           M(<<"s","e","v","e","r","i","t","y">>, Str(severity)),
           M(<<"t","i","m","e","s","t","a","m","p">>, None) >>

\* the loop body of parse_lynis_dat on one line: <<records appended, host>>
LynisLine(raw_line, host) ==
    LET ln == Strip(raw_line)
    IN  IF ln = <<>> \/ ~Contains(ln, <<"=">>) \/ StartsWith(ln, <<"#">>)
        THEN <<<<>>, host>>
        ELSE LET kv == Split1(ln, "=")
                 k  == Lower(Strip(kv[1]))
                 v  == Strip(kv[2])
                 h  == IF k \in {<<"h","o","s","t","n","a","m","e">>, <<"h","o","s","t">>, <<"s","y","s","t","e","m">>} THEN Str(v) ELSE host
             IN  IF StartsWith(k, <<"w","a","r","n","i","n","g","[">>)
                 THEN <<<<_rec(v, h, <<"W","a","r","n","i","n","g">>, <<"f","a","i","l">>, <<"m","e","d","i","u","m">>)>>, h>>
                 ELSE IF StartsWith(k, <<"s","u","g","g","e","s","t","i","o","n","[">>)
                 THEN <<<<_rec(v, h, <<"S","u","g","g","e","s","t","i","o","n">>, <<"w","a","r","n">>, <<"l","o","w">>)>>, h>>
                 ELSE IF StartsWith(k, <<"h","i","n","t","[">>)
                 THEN <<<<_rec(v, h, <<"H","i","n","t">>, <<"i","n","f","o">>, <<"i","n","f","o">>)>>, h>>
                 ELSE <<<<>>, h>>

RECURSIVE LynisLines(_, _)
LynisLines(lines, host) ==
    IF lines = <<>> THEN <<>>
    ELSE LET r == LynisLine(Head(lines), host)
         IN  r[1] \o LynisLines(Tail(lines), r[2])

\* parse_lynis_dat on the lines of the file (text.splitlines())
parse_lynis_dat(lines) == LynisLines(lines, None)

(***************************************************************************)
(* utils/build_findings.py: load_lynis_findings                            *)
(***************************************************************************)
\* the loop body of load_lynis_findings on one line: the findings appended
BfLine(raw_line) ==
    LET ln == Strip(raw_line)
    IN  IF ln = <<>> THEN <<>>
        ELSE IF StartsWith(ln, <<"s","u","g","g","e","s","t","i","o","n","[","]","=">>) \/ StartsWith(ln, <<"w","a","r","n","i","n","g","[","]","=">>)
        THEN LET payload == Split1(ln, "=")[2]
                 parts   == Split(payload, "|")
                 fid     == IF Len(parts) >= 2 THEN Str(Strip(parts[1])) ELSE None
                 desc    == IF Len(parts) >= 2 THEN Strip(parts[2]) ELSE payload
                 sev     == IF StartsWith(ln, <<"w","a","r","n","i","n","g","[","]","=">>) THEN <<"m","e","d","i","u","m">> ELSE <<"l","o","w">>
             IN  << << M(<<"i","d">>, fid),
                       M(<<"t","i","t","l","e">>, Str(desc)),
                       M(<<"d","e","s","c","r","i","p","t","i","o","n">>, Str(desc)),
                       M(<<"s","e","v","e","r","i","t","y">>, Str(sev)),
                       M(<<"a","s","s","e","t">>, Str(<<"k","a","l","i","s","c","a","n","n","e","r">>)),
                       M(<<"s","e","r","v","i","c","e">>, Str(<<"l","i","n","u","x">>)),
                       M(<<"a","s","s","e","t","_","c","r","i","t","i","c","a","l","i","t","y">>, Float(100)),
                       M(<<"c","o","n","f","i","d","e","n","c","e">>, Float(100)),
                       M(<<"c","o","m","p","l","i","a","n","c","e">>, List(<<>>)),
                       M(<<"s","o","u","r","c","e">>, Str(<<"l","i","n","u","x">>)) >> >>
        ELSE <<>>

RECURSIVE load_lynis_findings(_)
load_lynis_findings(lines) ==
    IF lines = <<>> THEN <<>>
    ELSE BfLine(Head(lines)) \o load_lynis_findings(Tail(lines))

(***************************************************************************)
(* normalize.py: load_json, detect_shape_and_iter                          *)
(***************************************************************************)
\* A file is [path, state, content]. state: "ok", "missing" (open raises
\* FileNotFoundError) or "unreadable" (open/read raises OSError or
\* UnicodeDecodeError). content: [k |-> "json", v |-> the value json.loads
\* returns], [k |-> "ndjson", v |-> one entry per non-blank line, the value
\* of the line or BadLine where json.loads(line) raises] for text that is
\* not one JSON document, or [k |-> "lines", v |-> text.splitlines()].
BadLine == [k |-> "bad", v |-> 0]

RECURSIVE ParsedLines(_)
ParsedLines(ls) ==
    IF ls = <<>> THEN <<>>
    ELSE (IF Head(ls) = BadLine THEN <<>> ELSE <<Head(ls)>>) \o ParsedLines(Tail(ls))

\* load_json: the document, or the list of the lines that parse
load_json(content) ==
    IF content.k = "json" THEN content.v ELSE List(ParsedLines(content.v))

\* [r for r in xs if isinstance(r, dict)], as records
RECURSIVE DictItems(_)
DictItems(xs) ==
    IF xs = <<>> THEN <<>>
    ELSE (IF Head(xs).k = "dict" THEN <<Head(xs).v>> ELSE <<>>) \o DictItems(Tail(xs))

ShapeKeys == <<<<"f","i","n","d","i","n","g","s">>, <<"r","e","s","u","l","t","s">>, <<"r","e","c","o","r","d","s">>, <<"i","t","e","m","s">>, <<"C","h","e","c","k","s">>>>

RECURSIVE FirstListMember(_, _)
FirstListMember(ms, keys) ==
    IF keys = <<>> THEN None
    ELSE IF Get(ms, Head(keys)).k = "list" THEN Get(ms, Head(keys))
    ELSE FirstListMember(ms, Tail(keys))

RECURSIVE Values(_)
Values(ms) == IF ms = <<>> THEN <<>> ELSE <<Head(ms).val>> \o Values(Tail(ms))

detect_shape_and_iter(raw) ==
    CASE raw.k = "list" -> DictItems(raw.v)
      [] raw.k = "dict" ->
            IF FirstListMember(raw.v, ShapeKeys) # None
            THEN DictItems(FirstListMember(raw.v, ShapeKeys).v)
            ELSE IF raw.v # <<>> /\ \A i \in 1..Len(raw.v) : raw.v[i].val.k = "dict"
            THEN DictItems(Values(raw.v))
            ELSE <<>>
      [] OTHER -> <<>>

(***************************************************************************)
(* normalize.py: normalize_files                                           *)
(***************************************************************************)
EndsWith(s, p) == Len(s) >= Len(p) /\ SubSeq(s, Len(s) - Len(p) + 1, Len(s)) = p

IsDat(f) == EndsWith(Lower(f.path), <<".","d","a","t">>)

\* the finding a record is adapted to, or "raise" when pick_adapter raises
Adapted(rec) ==
    CASE pick_adapter(rec) = "prowler" -> adapt_prowler(rec)
      [] pick_adapter(rec) = "lynis"   -> adapt_lynis(rec)
      [] OTHER                         -> "raise"

\* the dedupe loop (lines 388-394) over the records of a host report
RECURSIVE DedupeLynis(_, _)
DedupeLynis(recs, st) ==
    IF recs = <<>> THEN st
    ELSE LET uf  == adapt_lynis(Head(recs))
             key == make_dedupe_key(uf)
         IN  IF key \in st.seen THEN DedupeLynis(Tail(recs), st)
             ELSE DedupeLynis(Tail(recs),
                     [st EXCEPT !.seen = @ \cup {key},
                                !.normalized = Append(@, uf)])

\* the routing and dedupe loop (lines 401-408); an exception raised by
\* pick_adapter leaves the loop and normalize_files
RECURSIVE DedupeRouted(_, _)
DedupeRouted(recs, st) ==
    IF recs = <<>> THEN st
    ELSE IF pick_adapter(Head(recs)) = "raise" THEN [st EXCEPT !.raised = TRUE]
    ELSE LET uf  == Adapted(Head(recs))
             key == make_dedupe_key(uf)
         IN  IF key \in st.seen THEN DedupeRouted(Tail(recs), st)
             ELSE DedupeRouted(Tail(recs),
                     [st EXCEPT !.seen = @ \cup {key},
                                !.normalized = Append(@, uf)])

\* one iteration of "for p in paths" on file f, from the locals st =
\* [normalized, seen, warnings, raised]
NormalizeFile(f, st) ==
    IF f.state # "ok"
    THEN [st EXCEPT !.warnings = Append(@, f.path)]
    ELSE IF IsDat(f)
    THEN DedupeLynis(parse_lynis_dat(f.content.v), st)
    ELSE DedupeRouted(detect_shape_and_iter(load_json(f.content)), st)

\* normalize_files(paths): the locals when the loop ends or raises
RECURSIVE NormalizeFrom(_, _)
NormalizeFrom(paths, st) ==
    IF paths = <<>> \/ st.raised THEN st
    ELSE NormalizeFrom(Tail(paths), NormalizeFile(Head(paths), st))

normalize_files(paths) ==
    NormalizeFrom(paths, [normalized |-> <<>>, seen |-> {}, warnings |-> <<>>,
                          raised |-> FALSE])

(***************************************************************************)
(* Input files of the normalisation runs                                   *)
(***************************************************************************)
File_aws ==
    [ path |-> <<"a","w","s",".","j","s","o","n">>, state |-> "ok",
      content |-> [k |-> "json", v |-> List(<<Dict(<<M(<<"c","h","e","c","k","_","i","d">>, Str(<<"s","3","_","1">>)), M(<<"c","h","e","c","k","_","t","i","t","l","e">>, Str(<<"O","p","e","n"," ","b","u","c","k","e","t">>)), M(<<"s","t","a","t","u","s">>, Str(<<"F","A","I","L">>)), M(<<"s","e","v","e","r","i","t","y">>, Str(<<"H","i","g","h">>)), M(<<"r","e","s","o","u","r","c","e">>, Str(<<"b","1">>)), M(<<"s","e","r","v","i","c","e">>, Str(<<"S","3">>)), M(<<"d","e","s","c","r","i","p","t","i","o","n">>, Str(<<"d","1">>))>>), Dict(<<M(<<"c","h","e","c","k","_","i","d">>, Str(<<"s","3","_","1">>)), M(<<"c","h","e","c","k","_","t","i","t","l","e">>, Str(<<"O","p","e","n"," ","b","u","c","k","e","t">>)), M(<<"s","t","a","t","u","s">>, Str(<<"F","A","I","L">>)), M(<<"s","e","v","e","r","i","t","y">>, Str(<<"H","i","g","h">>)), M(<<"r","e","s","o","u","r","c","e">>, Str(<<"b","1">>)), M(<<"s","e","r","v","i","c","e">>, Str(<<"S","3">>)), M(<<"d","e","s","c","r","i","p","t","i","o","n">>, Str(<<"d","2">>))>>), Dict(<<M(<<"I","d">>, Str(<<"i","a","m","_","2">>)), M(<<"T","i","t","l","e">>, Str(<<"R","o","o","t"," ","k","e","y">>)), M(<<"S","t","a","t","u","s">>, Str(<<"p","a","s","s","e","d">>)), M(<<"S","e","v","e","r","i","t","y">>, Num(5)), M(<<"a","c","c","o","u","n","t","_","i","d">>, Str(<<"1","2","3">>))>>)>>)] ]
File_pipeA ==
    [ path |-> <<"p","i","p","e","A",".","j","s","o","n">>, state |-> "ok",
      content |-> [k |-> "json", v |-> List(<<Dict(<<M(<<"c","h","e","c","k","_","i","d">>, Str(<<"c">>)), M(<<"r","e","s","o","u","r","c","e">>, Str(<<"a","|","b">>)), M(<<"s","e","r","v","i","c","e">>, Str(<<"x">>))>>)>>)] ]
File_pipeB ==
    [ path |-> <<"p","i","p","e","B",".","j","s","o","n">>, state |-> "ok",
      content |-> [k |-> "json", v |-> List(<<Dict(<<M(<<"c","h","e","c","k","_","i","d">>, Str(<<"c">>)), M(<<"r","e","s","o","u","r","c","e">>, Str(<<"a">>)), M(<<"s","e","r","v","i","c","e">>, Str(<<"b","|","x">>))>>)>>)] ]
File_src5 ==
    [ path |-> <<"s","r","c","5",".","j","s","o","n">>, state |-> "ok",
      content |-> [k |-> "json", v |-> List(<<Dict(<<M(<<"s","o","u","r","c","e">>, Num(5)), M(<<"T","i","t","l","e">>, Str(<<"t">>))>>), Dict(<<M(<<"c","h","e","c","k","_","i","d">>, Str(<<"s","3","_","1">>)), M(<<"c","h","e","c","k","_","t","i","t","l","e">>, Str(<<"O","p","e","n"," ","b","u","c","k","e","t">>)), M(<<"s","t","a","t","u","s">>, Str(<<"F","A","I","L">>)), M(<<"s","e","v","e","r","i","t","y">>, Str(<<"H","i","g","h">>)), M(<<"r","e","s","o","u","r","c","e">>, Str(<<"b","1">>)), M(<<"s","e","r","v","i","c","e">>, Str(<<"S","3">>)), M(<<"d","e","s","c","r","i","p","t","i","o","n">>, Str(<<"d","1">>))>>)>>)] ]
File_late ==
    [ path |-> <<"l","a","t","e",".","j","s","o","n">>, state |-> "ok",
      content |-> [k |-> "json", v |-> List(<<Dict(<<M(<<"I","d">>, Str(<<"i","a","m","_","2">>)), M(<<"T","i","t","l","e">>, Str(<<"R","o","o","t"," ","k","e","y">>)), M(<<"S","t","a","t","u","s">>, Str(<<"p","a","s","s","e","d">>)), M(<<"S","e","v","e","r","i","t","y">>, Num(5)), M(<<"a","c","c","o","u","n","t","_","i","d">>, Str(<<"1","2","3">>))>>), Dict(<<M(<<"s","o","u","r","c","e">>, List(<<Str(<<"a","w","s">>)>>))>>), Dict(<<M(<<"c","h","e","c","k","_","i","d">>, Str(<<"s","3","_","1">>)), M(<<"c","h","e","c","k","_","t","i","t","l","e">>, Str(<<"O","p","e","n"," ","b","u","c","k","e","t">>)), M(<<"s","t","a","t","u","s">>, Str(<<"F","A","I","L">>)), M(<<"s","e","v","e","r","i","t","y">>, Str(<<"H","i","g","h">>)), M(<<"r","e","s","o","u","r","c","e">>, Str(<<"b","1">>)), M(<<"s","e","r","v","i","c","e">>, Str(<<"S","3">>)), M(<<"d","e","s","c","r","i","p","t","i","o","n">>, Str(<<"d","1">>))>>)>>)] ]
File_lyn ==
    [ path |-> <<"l","y","n",".","j","s","o","n">>, state |-> "ok",
      content |-> [k |-> "json", v |-> Dict(<<M(<<"f","i","n","d","i","n","g","s">>, List(<<Dict(<<M(<<"t","e","s","t","_","i","d">>, Str(<<"T","1">>)), M(<<"d","e","s","c","r","i","p","t","i","o","n">>, Str(<<"x">>))>>), Dict(<<M(<<"t","e","s","t","_","i","d">>, Str(<<"T","1">>)), M(<<"d","e","s","c","r","i","p","t","i","o","n">>, Str(<<"f","r","o","m"," ","P","r","o","w","l","e","r">>))>>)>>))>>)] ]
File_host ==
    [ path |-> <<"h","o","s","t",".","j","s","o","n">>, state |-> "ok",
      content |-> [k |-> "json", v |-> List(<<Dict(<<M(<<"h","o","s","t","n","a","m","e">>, Str(<<"h","1">>)), M(<<"s","o","u","r","c","e">>, Str(<<"a","w","s">>))>>), Dict(<<M(<<"h","o","s","t","n","a","m","e">>, Str(<<"h","1">>))>>), Dict(<<M(<<"s","o","u","r","c","e">>, Str(<<"L","I","N","U","X">>)), M(<<"t","i","t","l","e">>, Str(<<" ","t"," ">>))>>), Dict(<<M(<<"s","o","u","r","c","e">>, Str(<<"g","c","p">>)), M(<<"T","i","t","l","e">>, Str(<<"g">>))>>)>>)] ]
File_odd ==
    [ path |-> <<"o","d","d",".","j","s","o","n">>, state |-> "ok",
      content |-> [k |-> "json", v |-> List(<<Dict(<<M(<<"T","i","t","l","e">>, List(<<Str(<<"a">>), None, Str(<<"b">>)>>)), M(<<"S","t","a","t","u","s">>, Dict(<<M(<<"t","e","x","t">>, Str(<<"o","k">>))>>)), M(<<"S","e","v","e","r","i","t","y">>, Dict(<<M(<<"x">>, Num(1))>>)), M(<<"r","e","s","o","u","r","c","e">>, Dict(<<M(<<"m","e","s","s","a","g","e">>, Str(<<" ","a","r","n"," ">>))>>)), M(<<"s","e","r","v","i","c","e">>, Num(0))>>), Dict(<<>>), Num(7), Str(<<"s","t","r">>)>>)] ]
File_nd ==
    [ path |-> <<"n","d",".","j","s","o","n">>, state |-> "ok",
      content |-> [k |-> "ndjson", v |-> <<Dict(<<M(<<"c","h","e","c","k","_","i","d">>, Str(<<"s","3","_","1">>)), M(<<"c","h","e","c","k","_","t","i","t","l","e">>, Str(<<"O","p","e","n"," ","b","u","c","k","e","t">>)), M(<<"s","t","a","t","u","s">>, Str(<<"F","A","I","L">>)), M(<<"s","e","v","e","r","i","t","y">>, Str(<<"H","i","g","h">>)), M(<<"r","e","s","o","u","r","c","e">>, Str(<<"b","1">>)), M(<<"s","e","r","v","i","c","e">>, Str(<<"S","3">>)), M(<<"d","e","s","c","r","i","p","t","i","o","n">>, Str(<<"d","1">>))>>), BadLine, Dict(<<M(<<"s","c","a","n","n","e","r">>, Str(<<"l","y","n","i","s">>)), M(<<"r","e","s","u","l","t">>, Str(<<"O","K">>)), M(<<"l","e","v","e","l">>, Str(<<"3">>)), M(<<"n","o","d","e">>, Str(<<"n","1">>))>>)>>] ]
File_garbage ==
    [ path |-> <<"g","a","r","b","a","g","e",".","j","s","o","n">>, state |-> "ok",
      content |-> [k |-> "ndjson", v |-> <<BadLine, BadLine>>] ]
File_scalar ==
    [ path |-> <<"s","c","a","l","a","r",".","j","s","o","n">>, state |-> "ok",
      content |-> [k |-> "json", v |-> Dict(<<M(<<"a">>, Num(1))>>)] ]
File_map ==
    [ path |-> <<"m","a","p",".","j","s","o","n">>, state |-> "ok",
      content |-> [k |-> "json", v |-> Dict(<<M(<<"x">>, Dict(<<M(<<"c","h","e","c","k","_","i","d">>, Str(<<"m","1">>)), M(<<"s","e","v","e","r","i","t","y">>, Str(<<"c","r","i","t">>)), M(<<"s","t","a","t","u","s">>, Str(<<"e","r","r","o","r"," ">>))>>)), M(<<"y">>, Dict(<<M(<<"s","s","h","_","p","o","r","t">>, Num(22)), M(<<"s","t","a","t","u","s">>, Str(<<"W","a","r","n","i","n","g">>))>>))>>)] ]
File_missing ==
    [ path |-> <<"m","i","s","s","i","n","g",".","j","s","o","n">>, state |-> "missing",
      content |-> [k |-> "none", v |-> 0] ]
File_nodat ==
    [ path |-> <<"m","i","s","s","i","n","g",".","d","a","t">>, state |-> "missing",
      content |-> [k |-> "none", v |-> 0] ]
File_locked ==
    [ path |-> <<"l","o","c","k","e","d",".","j","s","o","n">>, state |-> "unreadable",
      content |-> [k |-> "none", v |-> 0] ]
File_dat ==
    [ path |-> <<"l","y","n","i","s","-","r","e","p","o","r","t",".","d","a","t">>, state |-> "ok",
      content |-> [k |-> "lines", v |-> <<<<"h","o","s","t","n","a","m","e","=","k","a","l","i">>, <<"w","a","r","n","i","n","g","[","]","=","F","I","R","E","-","4","5","1","2","|","i","p","t","a","b","l","e","s"," ","m","o","d","u","l","e","(","s",")"," ","l","o","a","d","e","d",","," ","b","u","t"," ","n","o"," ","r","u","l","e","s"," ","a","c","t","i","v","e","|","e","x","t","r","a">>, <<"s","u","g","g","e","s","t","i","o","n","[","]","=","S","S","H","-","7","4","0","8","|","H","a","r","d","e","n"," ","s","s","h","|","-","|","-","|">>, <<"#"," ","c","o","m","m","e","n","t","=","1">>, <<>>, <<"h","i","n","t","[","]","=","H","1","|">>, <<"s","u","g","g","e","s","t","i","o","n","[","]","=","S","S","H","-","7","4","0","8","|","D","i","s","a","b","l","e"," ","r","o","o","t"," ","l","o","g","i","n","|","-","|","-","|">>>>] ]
File_dat2 ==
    [ path |-> <<"b",".","D","A","T">>, state |-> "ok",
      content |-> [k |-> "lines", v |-> <<<<"w","a","r","n","i","n","g","[","]","=","F","I","R","E","-","4","5","1","2","|","o","t","h","e","r"," ","m","e","s","s","a","g","e">>, <<" ","W","a","r","n","i","n","g","[","x","]"," ","="," ","t","e","x","t",":","f","r","e","e","|","r","e","s","t"," ">>, <<"n","o","n","s","e","n","s","e">>, <<"o","k","[","]","=","f","i","n","e">>>>] ]
Files ==
    { File_aws,
      File_pipeA,
      File_pipeB,
      File_src5,
      File_late,
      File_lyn,
      File_host,
      File_odd,
      File_nd,
      File_garbage,
      File_scalar,
      File_map,
      File_missing,
      File_nodat,
      File_locked,
      File_dat,
      File_dat2 }

(***************************************************************************)
(* normalize.py: main, one iteration of "for p in paths" per step          *)
(***************************************************************************)
MaxInputs == 2

NormIdle ==
    /\ inputs = <<>> /\ normalized = <<>> /\ seen = {} /\ warnings = <<>>
    /\ pc = "idle"
TokIdle ==
    /\ token = None /\ tok_sev = <<>> /\ tok_status = <<>> /\ tok_uf = <<>>
    /\ tok_pc = "idle"
LineIdle ==
    /\ line = <<>> /\ lynis_uf = <<>> /\ bf_findings = <<>> /\ line_pc = "idle"
ScoreIdle ==
    /\ findings = <<>> /\ cleaned = <<>> /\ summary = <<>> /\ assets_top = <<>>
    /\ spc = "idle"
ScanIdle ==
    /\ scan_pc = "idle" /\ scan_log = <<>> /\ scan_rc = -1 /\ scan_files = <<>>
ConvIdle ==
    /\ conv_file = <<>> /\ conv_hist = <<>> /\ aws_loaded = <<>> /\ conv_pc = "idle"
GradeIdle ==
    /\ sev_list = <<>> /\ grades = <<>> /\ grade_pc = "idle"
MapperIdle ==
    /\ cm_in = <<>> /\ cm_out = <<>> /\ cm_pc = "idle"
ExtIdle == ScanIdle /\ ConvIdle /\ GradeIdle /\ MapperIdle

\* normalize_files entered: normalized = [], seen = set()
Init ==
    /\ inputs = <<>> /\ normalized = <<>> /\ seen = {} /\ warnings = <<>>
    /\ pc = "normalizing"
    /\ TokIdle /\ LineIdle /\ ScoreIdle /\ ExtIdle

Locals == [normalized |-> normalized, seen |-> seen, warnings |-> warnings,
           raised |-> FALSE]

\* the loop body on the next path f
Iterate(f) ==
    /\ pc = "normalizing"
    /\ Len(inputs) < MaxInputs
    /\ \E st \in {NormalizeFile(f, Locals)} :
           /\ normalized' = st.normalized
           /\ seen' = st.seen
           /\ warnings' = st.warnings
           /\ pc' = IF st.raised THEN "raised" ELSE "normalizing"
    /\ inputs' = Append(inputs, f)
    /\ UNCHANGED <<tokVars, lineVars, scoreVars, extVars>>

\* open() or read() raises: except branch, "[warn] Could not read"
ReadFails == \E f \in Files : f.state # "ok" /\ Iterate(f)

\* a host report: parse_lynis_dat, adapt_lynis, dedupe
NormalizeDat == \E f \in Files : f.state = "ok" /\ IsDat(f) /\ Iterate(f)

\* any other file: load_json, detect_shape_and_iter, pick_adapter, dedupe
NormalizeJson == \E f \in Files : f.state = "ok" /\ ~IsDat(f) /\ Iterate(f)

\* main: write_outputs(findings, args.out_dir) once normalize_files returned;
\* os.makedirs or open(..., "w") raises when the directory cannot be
\* created or written
WriteOutputs ==
    /\ pc = "normalizing"
    /\ pc' = "written"
    /\ UNCHANGED <<inputs, normalized, seen, warnings, tokVars, lineVars, scoreVars, extVars>>

WriteOutputsFails ==
    /\ pc = "normalizing"
    /\ pc' = "write_failed"
    /\ UNCHANGED <<inputs, normalized, seen, warnings, tokVars, lineVars, scoreVars, extVars>>

Next == ReadFails \/ NormalizeDat \/ NormalizeJson \/ WriteOutputs \/ WriteOutputsFails

Spec == Init /\ [][Next]_vars

(***************************************************************************)
(* Properties of the normalisation run                                     *)
(***************************************************************************)
\* the raw records normalize_files iterates over in file f
RecordsOf(f) ==
    IF f.state # "ok" THEN <<>>
    ELSE IF IsDat(f) THEN parse_lynis_dat(f.content.v)
    ELSE detect_shape_and_iter(load_json(f.content))

\* the records of the files handled so far that went through pick_adapter
RoutedRecords ==
    UNION { {RecordsOf(inputs[i])[n] : n \in 1..Len(RecordsOf(inputs[i]))} :
            i \in {j \in 1..Len(inputs) : ~IsDat(inputs[j])} }

\* every record of the sampled files that goes through pick_adapter
SampleRecords ==
    UNION { {RecordsOf(f)[n] : n \in 1..Len(RecordsOf(f))} :
            f \in {g \in Files : ~IsDat(g)} }

\* the findings adapted from the files, in input order, before dedupe
RECURSIVE Produced(_)
Produced(files) ==
    IF files = <<>> THEN <<>>
    ELSE LET f == Head(files)
             recs == RecordsOf(f)
         IN  [n \in 1..Len(recs) |->
                 IF IsDat(f) THEN adapt_lynis(recs[n]) ELSE Adapted(recs[n])]
             \o Produced(Tail(files))

KeyTuple(f) ==
    <<f.source, f.scanner, f.asset, f.service, f.control_id, f.title, f.status>>

\* the subsequence of all that keeps the first finding of each key tuple
FirstOfEachTuple(all) ==
    LET firsts == {i \in 1..Len(all) :
                      \A j \in 1..(i - 1) : KeyTuple(all[j]) # KeyTuple(all[i])}
        nth(n) == CHOOSE i \in firsts : Cardinality({j \in firsts : j < i}) = n - 1
    IN  [n \in 1..Cardinality(firsts) |-> all[nth(n)]]

\* C2 (as claimed, for the runs that return): the output of normalize_files
\* holds exactly one finding for each distinct (source, scanner, asset,
\* service, control_id, title, status), namely the first in input order, and
\* the retained findings keep their input order.
C2_OneFindingPerKeyTuple ==
    pc # "raised" => normalized = FirstOfEachTuple(Produced(inputs))

\* C6 (as claimed): routing, adaptation and key computation never raise; every
\* record of every file handled yields a finding whose key is recorded, so
\* the records after it are processed too.
C6_NeverRaises ==
    /\ pc # "raised"
    /\ \A i \in 1..Len(inputs) : \A n \in 1..Len(RecordsOf(inputs[i])) :
          LET rec == RecordsOf(inputs[i])[n]
          IN  /\ IsDat(inputs[i]) \/ pick_adapter(rec) \in {"prowler", "lynis"}
              /\ make_dedupe_key(Produced(<<inputs[i]>>)[n]) \in seen

\* an input that is missing, unreadable or unparseable
Unparseable(f) == f.state = "ok" /\ f.content.k = "ndjson" /\ ParsedLines(f.content.v) = <<>>
Skipped(f) == f.state # "ok" \/ Unparseable(f)
NotSkipped(f) == ~Skipped(f)

\* C7 (as claimed): a missing, unreadable or unparseable input never aborts
\* the run; each such input is skipped with a warning and the list returned
\* is the list returned for the remaining inputs alone; the run then writes
\* its outputs and fails only when the output directory cannot be written.
C7_SkipWithWarningAndWrite ==
    /\ Len(warnings) = Len(SelectSeq(inputs, Skipped))
    /\ (\E i \in 1..Len(inputs) : Skipped(inputs[i])) =>
          /\ pc \in {"normalizing", "written", "write_failed"}
          /\ normalized = normalize_files(SelectSeq(inputs, NotSkipped)).normalized

KeySet(record) == {record[i].key : i \in 1..Len(record)}

KeyDecided(r) ==
    \/ <<"c","h","e","c","k","_","i","d">> \in KeySet(r) \/ <<"c","h","e","c","k","_","t","i","t","l","e">> \in KeySet(r)
    \/ MentionsProwler(r)
    \/ <<"t","e","s","t","_","i","d">> \in KeySet(r) \/ <<"l","y","n","i","s">> \in KeySet(r)
    \/ Get(r, <<"s","c","a","n","n","e","r">>) = Str(<<"l","y","n","i","s">>)
SourceText(r) ==
    IF Truthy(Get(r, <<"s","o","u","r","c","e">>)) THEN Get(r, <<"s","o","u","r","c","e">>) ELSE Str(<<>>)
HostLike(r) ==
    \E key \in KeySet(r) :
        \E pat \in {<<"h","o","s","t">>, <<"s","s","h">>, <<"p","a","m">>, <<"s","y","s","c","t","l">>} : Contains(Lower(key), pat)

Supplied(raw, keys) == \E key \in keys : Truthy(Get(raw, key))
CleanTextOrNull(x) ==
    x = None \/ (x.k = "str" /\ x.v # <<>> /\ Strip(x.v) = x.v)

\* C9 (as claimed): title and description of every finding are strings,
\* never null.
C9_TitleNeverNull ==
    \A j \in 1..Len(normalized) :
        normalized[j].title.k = "str" /\ normalized[j].description.k = "str"

\* C9 (amended): title and description of every finding are each null or a
\* non-empty text without surrounding blanks; they are null whenever the raw
\* record supplies nothing under the adapter's keys (cloud: check_title,
\* Title, CheckTitle and description, Description; host: title, test,
\* test_id and description, detail, then the title keys). The cloud adapter
\* applies no default; the host adapter's title falls back to test_id.
C9_TitleNullable ==
    \A j \in 1..Len(normalized) :
        LET f == normalized[j]
        IN  /\ CleanTextOrNull(f.title) /\ CleanTextOrNull(f.description)
            /\ f.source = Str(<<"a","w","s">>) =>
                  /\ ~Supplied(f.raw, {<<"c","h","e","c","k","_","t","i","t","l","e">>, <<"T","i","t","l","e">>, <<"C","h","e","c","k","T","i","t","l","e">>})
                        => f.title = None
                  /\ ~Supplied(f.raw, {<<"d","e","s","c","r","i","p","t","i","o","n">>, <<"D","e","s","c","r","i","p","t","i","o","n">>})
                        => f.description = None
            /\ f.source = Str(<<"l","i","n","u","x">>) =>
                  /\ ~Supplied(f.raw, {<<"t","i","t","l","e">>, <<"t","e","s","t">>, <<"t","e","s","t","_","i","d">>})
                        => f.title = None
                  /\ ~Supplied(f.raw, {<<"t","i","t","l","e">>, <<"t","e","s","t">>, <<"t","e","s","t","_","i","d">>,
                                       <<"d","e","s","c","r","i","p","t","i","o","n">>, <<"d","e","t","a","i","l">>})
                        => f.description = None
                  /\ ( /\ ~Supplied(f.raw, {<<"t","i","t","l","e">>, <<"t","e","s","t">>})
                       /\ Get(f.raw, <<"t","e","s","t","_","i","d">>).k = "str"
                       /\ Strip(Get(f.raw, <<"t","e","s","t","_","i","d">>).v) # <<>> )
                        => f.title = f.control_id /\ f.title # None

\* a cloud finding with a control id and no title, and a host finding whose
\* title is its test_id
C9_Witness ==
    /\ \E j \in 1..Len(normalized) :
          /\ normalized[j].source = Str(<<"a","w","s">>)
          /\ normalized[j].control_id # None
          /\ normalized[j].title = None /\ normalized[j].description = None
    /\ \E j \in 1..Len(normalized) :
          /\ normalized[j].source = Str(<<"l","i","n","u","x">>)
          /\ normalized[j].title = normalized[j].control_id
          /\ normalized[j].title # None

(***************************************************************************)
(* _norm_severity, _norm_status and _mk_finding on one token               *)
(***************************************************************************)
UpperChar(c) ==
    IF \E i \in 1..26 : LowerLetters[i] = c
    THEN UpperLetters[CHOOSE i \in 1..26 : LowerLetters[i] = c]
    ELSE c
Upper(s) == [i \in 1..Len(s) |-> UpperChar(s[i])]
Capitalized(s) == [i \in 1..Len(s) |-> IF i = 1 THEN UpperChar(s[i]) ELSE s[i]]

\* the vocabulary the scanners use, in lower case, and words outside it
KnownWords ==
    { <<"c","r","i","t","i","c","a","l">>, <<"c","r","i","t">>, <<"h","i","g","h">>, <<"m","e","d","i","u","m">>, <<"m","e","d">>, <<"l","o","w">>,
      <<"i","n","f","o","r","m","a","t","i","o","n","a","l">>, <<"i","n","f","o">>, <<"n","o","n","e">>,
      <<"p","a","s","s">>, <<"o","k">>, <<"p","a","s","s","e","d">>, <<"s","u","c","c","e","s","s">>, <<"f","a","i","l">>, <<"f","a","i","l","e","d">>,
      <<"e","r","r","o","r">>, <<"w","a","r","n","i","n","g">>, <<"w","a","r","n">>, <<"m","a","n","u","a","l">>, <<"n","o","t","_","a","p","p","l","i","c","a","b","l","e">>, <<"n","a">> }
OtherWords == { <<"a","l","a","r","m">>, <<"s","e","v","e","r","e">>, <<"h","i"," ","g","h">>, <<"5",".","0">>, <<"-","1">> }
MaxCode == 6

\* a token is [value, word]: the value handed to the normaliser and the
\* lower-case word it spells ("?" for a value that spells none)
Tokens ==
    { [value |-> Str(w), word |-> w] : w \in KnownWords \cup OtherWords }
    \cup { [value |-> Str(Upper(w)), word |-> w] : w \in KnownWords \cup OtherWords }
    \cup { [value |-> Str(Capitalized(w)), word |-> w] : w \in KnownWords }
    \cup { [value |-> Str(<<" "," ">> \o Upper(w) \o <<" ">>), word |-> w] : w \in KnownWords }
    \cup { [value |-> Num(n), word |-> StrOfInt(n)] : n \in 0..MaxCode }
    \cup { [value |-> Str(StrOfInt(n)), word |-> StrOfInt(n)] : n \in 0..MaxCode }
    \cup { [value |-> x, word |-> <<"?">>] :
             x \in { None, Str(<<>>), Str(<<" "," ">>), List(<<>>), List(<<Str(<<"h","i","g","h">>)>>),
                     Dict(<<M(<<"s","e","v","e","r","i","t","y">>, Str(<<"h","i","g","h">>))>>), Float(500), Float(0) } }

TokInit ==
    /\ token \in Tokens
    /\ tok_sev = <<>> /\ tok_status = <<>> /\ tok_uf = <<>>
    /\ tok_pc = "start"
    /\ NormIdle /\ LineIdle /\ ScoreIdle /\ ExtIdle

NormalizeToken ==
    /\ tok_pc = "start"
    /\ tok_sev' = _norm_severity(token.value)
    /\ tok_status' = _norm_status(token.value)
    /\ tok_uf' = _mk_finding(Str(<<"a","w","s">>), Str(<<"p","r","o","w","l","e","r">>), None, None, None, None,
                             None, token.value, token.value, None, <<>>)
    /\ tok_pc' = "done"
    /\ UNCHANGED <<token, normVars, lineVars, scoreVars, extVars>>

TokNext == NormalizeToken

SpecTokens == TokInit /\ [][TokNext]_vars

\* the documented value of each word
SeverityOf(w) ==
    CASE w \in {<<"c","r","i","t","i","c","a","l">>, <<"c","r","i","t">>, <<"5">>} -> <<"c","r","i","t","i","c","a","l">>
      [] w \in {<<"h","i","g","h">>, <<"4">>}               -> <<"h","i","g","h">>
      [] w \in {<<"m","e","d","i","u","m">>, <<"m","e","d">>, <<"3">>}     -> <<"m","e","d","i","u","m">>
      [] w \in {<<"l","o","w">>, <<"2">>}                -> <<"l","o","w">>
      [] OTHER                                 -> <<"i","n","f","o">>
StatusOf(w) ==
    CASE w \in {<<"p","a","s","s">>, <<"o","k">>, <<"p","a","s","s","e","d">>, <<"s","u","c","c","e","s","s">>} -> <<"p","a","s","s">>
      [] w \in {<<"f","a","i","l">>, <<"f","a","i","l","e","d">>, <<"e","r","r","o","r">>}          -> <<"f","a","i","l">>
      [] w \in {<<"w","a","r","n","i","n","g">>, <<"w","a","r","n">>}                    -> <<"w","a","r","n">>
      [] OTHER                                            -> <<"i","n","f","o">>

\* C1: for every token (text in any letter case, a number, a missing value)
\* _norm_severity returns one of critical, high, medium, low, info and
\* _norm_status one of pass, fail, warn, info; every word of the alias tables
\* (numeric codes included) maps to its documented value and any other token
\* to info; the finding _mk_finding builds carries these values.
C1_ClosedVocabulary ==
    tok_pc = "done" =>
        /\ tok_sev \in {<<"c","r","i","t","i","c","a","l">>, <<"h","i","g","h">>, <<"m","e","d","i","u","m">>, <<"l","o","w">>, <<"i","n","f","o">>}
        /\ tok_status \in {<<"p","a","s","s">>, <<"f","a","i","l">>, <<"w","a","r","n">>, <<"i","n","f","o">>}
        /\ tok_sev = SeverityOf(token.word)
        /\ tok_status = StatusOf(token.word)
        /\ tok_uf.severity = Str(tok_sev)
        /\ tok_uf.status = Str(tok_status)

\* an upper-case padded alias and a numeric code have been normalised
C1_Witness ==
    /\ tok_pc = "done"
    /\ \/ token.value = Str(<<" "," ","C","R","I","T"," ">>) /\ tok_sev = <<"c","r","i","t","i","c","a","l">>
       \/ token.value = Num(4) /\ tok_sev = <<"h","i","g","h">> /\ tok_status = <<"i","n","f","o">>

(***************************************************************************)
(* One host-report line through parse_lynis_dat + adapt_lynis and through  *)
(* load_lynis_findings                                                     *)
(***************************************************************************)
LineKinds == {<<"w","a","r","n","i","n","g">>, <<"s","u","g","g","e","s","t","i","o","n">>, <<"h","i","n","t">>}
LineIds   == {<<"F","I","R","E","-","4","5","1","2">>, <<"S","S","H","-","7","4","0","8">>, <<"H","1">>}
LineMsgs  == {<<"i","p","t","a","b","l","e","s"," ","m","o","d","u","l","e","(","s",")"," ","l","o","a","d","e","d",","," ","b","u","t"," ","n","o"," ","r","u","l","e","s"," ","a","c","t","i","v","e">>, <<"H","a","r","d","e","n"," ","s","s","h"," ">>,
              <<" ","-"," ">>, <<>>}
LineRests == {<<>>, <<"|","e","x","t","r","a">>, <<"|","-","|","-","|">>}
LineHosts == {<<>>, <<"k","a","l","i">>}

\* kind[]=ID|message|rest...
LineText(l) == l.kind \o <<"[","]","=">> \o l.id \o <<"|">> \o l.msg \o l.rest

\* the report: an optional hostname line, then the line
ReportLines(l) ==
    (IF l.host = <<>> THEN <<>> ELSE <<<<"h","o","s","t","n","a","m","e","=">> \o l.host>>) \o <<LineText(l)>>

LineInit ==
    /\ line \in [kind : LineKinds, id : LineIds, msg : LineMsgs, rest : LineRests,
                 host : LineHosts]
    /\ lynis_uf = <<>> /\ bf_findings = <<>>
    /\ line_pc = "start"
    /\ NormIdle /\ TokIdle /\ ScoreIdle /\ ExtIdle

ParseLine ==
    /\ line_pc = "start"
    /\ LET recs == parse_lynis_dat(ReportLines(line))
       IN  lynis_uf' = [n \in 1..Len(recs) |-> adapt_lynis(recs[n])]
    /\ bf_findings' = load_lynis_findings(ReportLines(line))
    /\ line_pc' = "parsed"
    /\ UNCHANGED <<line, normVars, tokVars, scoreVars, extVars>>

LineNext == ParseLine

SpecLynis == LineInit /\ [][LineNext]_vars

KindLabel(kind) ==
    CASE kind = <<"w","a","r","n","i","n","g">> -> <<"W","a","r","n","i","n","g">>
      [] kind = <<"s","u","g","g","e","s","t","i","o","n">> -> <<"S","u","g","g","e","s","t","i","o","n">>
      [] kind = <<"h","i","n","t">> -> <<"H","i","n","t">>
KindSeverity(kind) ==
    CASE kind = <<"w","a","r","n","i","n","g">> -> <<"m","e","d","i","u","m">>
      [] kind = <<"s","u","g","g","e","s","t","i","o","n">> -> <<"l","o","w">>
      [] kind = <<"h","i","n","t">> -> <<"i","n","f","o">>
KindStatus(kind) ==
    CASE kind = <<"w","a","r","n","i","n","g">> -> <<"f","a","i","l">>
      [] kind = <<"s","u","g","g","e","s","t","i","o","n">> -> <<"w","a","r","n">>
      [] kind = <<"h","i","n","t">> -> <<"i","n","f","o">>

SEVERITY_WEIGHT == <<
    <<<<"c","r","i","t","i","c","a","l">>, 10>>, <<<<"h","i","g","h">>, 7>>, <<<<"m","e","d","i","u","m">>, 4>>,
    <<<<"l","o","w">>, 1>>, <<<<"i","n","f","o">>, 0>> >>

\* bounds in whole points; the last upper bound is 10**9
GRADE_THRESHOLDS == <<
    <<<<"A">>, 0, 10>>, <<<<"B">>, 11, 25>>, <<<<"C">>, 26, 50>>,
    <<<<"D">>, 51, 80>>, <<<<"F">>, 81, 1000000000>> >>

\* the [:10] of the asset table
TopN == 10

\* the literal that stands for a missing asset (three characters in the
\* source, written here as one)
Placeholder == Str(<<"~">>)

\* record[key] = val
SetItem(record, key, val) ==
    IF HasKey(record, key)
    THEN [i \in 1..Len(record) |->
             IF record[i].key = key THEN M(key, val) ELSE record[i]]
    ELSE Append(record, M(key, val))

\* record.get(key, default)
GetDefault(record, key, default) ==
    IF HasKey(record, key) THEN Get(record, key) ELSE default

IsDigits(s) == s # <<>> /\ \A i \in 1..Len(s) : s[i] \in {Digits[d] : d \in 1..10}

RECURSIVE IntOfDigits(_)
IntOfDigits(s) ==
    IF s = <<>> THEN 0
    ELSE IntOfDigits(SubSeq(s, 1, Len(s) - 1)) * 10
         + ((CHOOSE d \in 1..10 : Digits[d] = s[Len(s)]) - 1)

\* float(text) in hundredths for the forms "d+" and "d+.d" / "d+.dd";
\* any other text is taken as not a number (ValueError).  Exponents, signs,
\* "inf" and "nan" are outside the sampled texts.
ParseFloat(text) ==
    LET parts == Split(Strip(text), ".") IN
    CASE Len(parts) = 1 /\ IsDigits(parts[1]) ->
             [ok |-> TRUE, v |-> IntOfDigits(parts[1]) * 100]
      [] Len(parts) = 2 /\ IsDigits(parts[1]) /\ IsDigits(parts[2])
             /\ Len(parts[2]) <= 2 ->
             [ok |-> TRUE,
              v |-> IntOfDigits(parts[1]) * 100
                    + (IF Len(parts[2]) = 1 THEN IntOfDigits(parts[2]) * 10
                       ELSE IntOfDigits(parts[2]))]
      [] OTHER -> [ok |-> FALSE, v |-> 0]

\* float(x) in hundredths; ok = FALSE is ValueError / TypeError
FloatOf(x) ==
    CASE x.k = "int"   -> [ok |-> TRUE, v |-> x.v * 100]
      [] x.k = "float" -> [ok |-> TRUE, v |-> x.v]
      [] x.k = "str"   -> ParseFloat(x.v)
      [] OTHER         -> [ok |-> FALSE, v |-> 0]

\* round(x, 2) of x given in ten-thousandths, result in hundredths; the
\* sampled factors are dyadic, so the float product is exact and a tie
\* goes to the even neighbour
Round2(p) ==
    LET q == p \div 100
        r == p % 100
    IN  IF r < 50 THEN q
        ELSE IF r > 50 THEN q + 1
        ELSE IF q % 2 = 0 THEN q ELSE q + 1

\* score_finding(f), f a dict whose severity is text or falsy:
\* [ok, v] with v the score in hundredths
score_finding(f) ==
    LET sev  == Strip(Lower(Or(Get(f, <<"s","e","v","e","r","i","t","y">>), Str(<<>>)).v))
        w    == MapGet(SEVERITY_WEIGHT, sev, 0)
        ac   == FloatOf(Or(GetDefault(f, <<"a","s","s","e","t","_","c","r","i","t","i","c","a","l","i","t","y">>, Float(100)),
                           Float(100)))
        conf == FloatOf(Or(GetDefault(f, <<"c","o","n","f","i","d","e","n","c","e">>, Float(100)),
                           Float(100)))
    IN  IF ac.ok /\ conf.ok
        THEN [ok |-> TRUE, v |-> Round2(w * ac.v * conf.v)]
        ELSE [ok |-> FALSE, v |-> 0]

\* grade_from_score(total), total in hundredths: lo <= total is
\* lo <= floor(total), total <= hi is ceiling(total) <= hi
RECURSIVE GradeFrom(_, _)
GradeFrom(total, i) ==
    IF i > Len(GRADE_THRESHOLDS) THEN <<"F">>
    ELSE IF GRADE_THRESHOLDS[i][2] <= total \div 100
            /\ -((-total) \div 100) <= GRADE_THRESHOLDS[i][3]
         THEN GRADE_THRESHOLDS[i][1]
         ELSE GradeFrom(total, i + 1)

grade_from_score(total) == GradeFrom(total, 1)

\* get_lynis_descriptions() on reports/lynis-report.dat:
\* report = [exists, lines]
RECURSIVE DescriptionsOf(_)
DescriptionsOf(lines) ==
    IF lines = <<>> THEN <<>>
    ELSE LET ln == Strip(Head(lines))
             parts == Split(Split1(ln, "=")[2], "|")
         IN  (IF ln # <<>>
                 /\ (StartsWith(ln, <<"s","u","g","g","e","s","t","i","o","n","[","]","=">>)
                     \/ StartsWith(ln, <<"w","a","r","n","i","n","g","[","]","=">>))
                 /\ Len(parts) >= 2
              THEN <<Strip(parts[2])>> ELSE <<>>)
             \o DescriptionsOf(Tail(lines))

get_lynis_descriptions(report) ==
    IF ~report.exists THEN <<>> ELSE DescriptionsOf(report.lines)

\* patch_linux_titles(findings): [findings, raised]; a list member that is
\* not a dict has no .get (AttributeError)
RECURSIVE PatchFrom(_, _, _, _)
PatchFrom(fs, i, idx, descs) ==
    IF i > Len(fs) THEN [findings |-> fs, raised |-> FALSE]
    ELSE IF fs[i].k # "dict" THEN [findings |-> fs, raised |-> TRUE]
    ELSE IF /\ Get(fs[i].v, <<"a","s","s","e","t">>) = Str(<<"k","a","l","i","s","c","a","n","n","e","r">>)
            /\ Get(fs[i].v, <<"s","e","r","v","i","c","e">>) = Str(<<"l","i","n","u","x">>)
            /\ Get(fs[i].v, <<"t","i","t","l","e">>) \in {None, Str(<<>>), Str(<<"S","u","g","g","e","s","t","i","o","n">>)}
            /\ idx < Len(descs)
         THEN PatchFrom([fs EXCEPT ![i] =
                             Dict(SetItem(fs[i].v, <<"t","i","t","l","e">>, Str(descs[idx + 1])))],
                        i + 1, idx + 1, descs)
         ELSE PatchFrom(fs, i + 1, idx, descs)

patch_linux_titles(fs, report) ==
    LET descs == get_lynis_descriptions(report) IN
    IF descs = <<>> THEN [findings |-> fs, raised |-> FALSE]
    ELSE PatchFrom(fs, 1, 0, descs)

\* main, "for f in findings": [cleaned, raised].  A member that is not a
\* dict has no .get, a truthy severity that is not text has no .lower,
\* and float() of a malformed factor raises
RECURSIVE ScoreFrom(_, _, _)
ScoreFrom(fs, i, acc) ==
    IF i > Len(fs) THEN [cleaned |-> acc, raised |-> FALSE]
    ELSE IF fs[i].k # "dict" THEN [cleaned |-> acc, raised |-> TRUE]
    ELSE LET given == Or(Get(fs[i].v, <<"s","e","v","e","r","i","t","y">>), Str(<<"i","n","f","o">>)) IN
         IF given.k # "str" THEN [cleaned |-> acc, raised |-> TRUE]
         ELSE LET low == Strip(Lower(given.v))
                  sev == IF \E r \in 1..Len(SEVERITY_WEIGHT) :
                                SEVERITY_WEIGHT[r][1] = low
                         THEN low ELSE <<"i","n","f","o">>
                  f1  == SetItem(fs[i].v, <<"s","e","v","e","r","i","t","y">>, Str(sev))
                  sc  == score_finding(f1)
              IN  IF ~sc.ok THEN [cleaned |-> acc, raised |-> TRUE]
                  ELSE ScoreFrom(fs, i + 1,
                           Append(acc, Dict(SetItem(f1, <<"_","s","c","o","r","e">>, Float(sc.v)))))

ScoreOf(f) == Get(f.v, <<"_","s","c","o","r","e">>).v

RECURSIVE SumScores(_, _)
SumScores(fs, i) ==
    IF i > Len(fs) THEN 0 ELSE ScoreOf(fs[i]) + SumScores(fs, i + 1)

\* counts[sev]
CountOf(fs, sev) ==
    Cardinality({i \in 1..Len(fs) : Get(fs[i].v, <<"s","e","v","e","r","i","t","y">>) = Str(sev)})

\* the summary dict of main; a sum of hundredths is its own round(_, 2)
Summary(fs) ==
    LET total_score == SumScores(fs, 1) IN
    << M(<<"t","i","m","e","s","t","a","m","p">>, Str(NowIso)),
       M(<<"s","c","o","r","e">>, Float(total_score)),
       M(<<"g","r","a","d","e">>, Str(grade_from_score(total_score))),
       M(<<"c","o","u","n","t","s">>, Dict(<< M(<<"c","r","i","t","i","c","a","l">>, Num(CountOf(fs, <<"c","r","i","t","i","c","a","l">>))),
                             M(<<"h","i","g","h">>, Num(CountOf(fs, <<"h","i","g","h">>))),
                             M(<<"m","e","d","i","u","m">>, Num(CountOf(fs, <<"m","e","d","i","u","m">>))),
                             M(<<"l","o","w">>, Num(CountOf(fs, <<"l","o","w">>))),
                             M(<<"i","n","f","o">>, Num(CountOf(fs, <<"i","n","f","o">>))) >>)) >>

\* key = f.get("asset") or placeholder
AssetKey(f) == Or(Get(f.v, <<"a","s","s","e","t">>), Placeholder)

\* by_asset: the groups in first-occurrence order, as a list of
\* [asset, score, count]
RECURSIVE ByAsset(_, _, _)
ByAsset(fs, i, acc) ==
    IF i > Len(fs) THEN acc
    ELSE LET key == AssetKey(fs[i]) IN
         IF \E g \in 1..Len(acc) : acc[g].asset = key
         THEN ByAsset(fs, i + 1,
                  [g \in 1..Len(acc) |->
                      IF acc[g].asset = key
                      THEN [acc[g] EXCEPT !.score = @ + ScoreOf(fs[i]),
                                          !.count = @ + 1]
                      ELSE acc[g]])
         ELSE ByAsset(fs, i + 1,
                  Append(acc, [asset |-> key, score |-> ScoreOf(fs[i]), count |-> 1]))

\* sorted(groups, key = score, reverse = True): stable, descending
SortedDescending(groups) ==
    LET n == Len(groups)
        Rank(g) == 1 + Cardinality({h \in 1..n :
                        \/ groups[h].score > groups[g].score
                        \/ groups[h].score = groups[g].score /\ h < g})
    IN  [p \in 1..n |-> groups[CHOOSE g \in 1..n : Rank(g) = p]]

AsEntries(groups) ==
    [p \in 1..Len(groups) |->
        << M(<<"a","s","s","e","t">>, groups[p].asset),
           M(<<"s","c","o","r","e">>, Float(groups[p].score)),
           M(<<"c","o","u","n","t">>, Num(groups[p].count)) >>]

AssetsTopAscending(fs) ==
    LET groups == ByAsset(fs, 1, <<>>)
        n == Len(groups)
        Rank(g) == 1 + Cardinality({h \in 1..n :
                        \/ groups[h].score < groups[g].score
                        \/ groups[h].score = groups[g].score /\ h < g})
        ranked == [p \in 1..n |-> groups[CHOOSE g \in 1..n : Rank(g) = p]]
    IN
    AsEntries(SubSeq(ranked, 1, IF Len(ranked) < TopN THEN Len(ranked) ELSE TopN))

\* assets_top of main
AssetsTop(fs) ==
    LET ranked == SortedDescending(ByAsset(fs, 1, <<>>)) IN
    AsEntries(SubSeq(ranked, 1, IF Len(ranked) < TopN THEN Len(ranked) ELSE TopN))

(***************************************************************************)
(* score_and_report.py: main, from json.load to the asset table            *)
(***************************************************************************)
MaxFindings == 3

\* findings of the input file
S_high     == Dict(<< M(<<"s","e","v","e","r","i","t","y">>, Str(<<"h","i","g","h">>)),
                      M(<<"a","s","s","e","t","_","c","r","i","t","i","c","a","l","i","t","y">>, Float(200)),
                      M(<<"c","o","n","f","i","d","e","n","c","e">>, Float(50)),
                      M(<<"a","s","s","e","t">>, Str(<<"w","e","b">>)) >>)
S_critical == Dict(<< M(<<"s","e","v","e","r","i","t","y">>, Str(<<"c","r","i","t","i","c","a","l">>)) >>)
S_low      == Dict(<< M(<<"s","e","v","e","r","i","t","y">>, Str(<<"l","o","w">>)), M(<<"a","s","s","e","t">>, Str(<<>>)) >>)
S_zero     == Dict(<< M(<<"s","e","v","e","r","i","t","y">>, Str(<<"c","r","i","t","i","c","a","l">>)),
                      M(<<"a","s","s","e","t","_","c","r","i","t","i","c","a","l","i","t","y">>, Num(0)),
                      M(<<"a","s","s","e","t">>, Str(<<"d","b">>)) >>)
S_half     == Dict(<< M(<<"s","e","v","e","r","i","t","y">>, Str(<<"l","o","w">>)),
                      M(<<"c","o","n","f","i","d","e","n","c","e">>, Float(50)),
                      M(<<"a","s","s","e","t">>, Str(<<"w","e","b">>)) >>)
S_host     == Dict(<< M(<<"s","e","v","e","r","i","t","y">>, Str(<<"M","e","d","i","u","m"," ">>)),
                      M(<<"a","s","s","e","t">>, Str(<<"k","a","l","i","s","c","a","n","n","e","r">>)),
                      M(<<"s","e","r","v","i","c","e">>, Str(<<"l","i","n","u","x">>)),
                      M(<<"t","i","t","l","e">>, Str(<<"S","u","g","g","e","s","t","i","o","n">>)),
                      M(<<"a","s","s","e","t","_","c","r","i","t","i","c","a","l","i","t","y">>, None) >>)
S_bogus    == Dict(<< M(<<"s","e","v","e","r","i","t","y">>, Str(<<"b","o","g","u","s">>)),
                      M(<<"a","s","s","e","t">>, None),
                      M(<<"c","o","n","f","i","d","e","n","c","e">>, Str(<<"2">>)) >>)
S_text     == Dict(<< M(<<"s","e","v","e","r","i","t","y">>, Str(<<"h","i","g","h">>)),
                      M(<<"c","o","n","f","i","d","e","n","c","e">>, Str(<<"a","b","c">>)) >>)
S_scalar   == Str(<<"o","o","p","s">>)

SampleFindings ==
    {S_high, S_critical, S_low, S_zero, S_half, S_host, S_bogus, S_text, S_scalar}

SevCycle == <<<<"c","r","i","t","i","c","a","l">>, <<"h","i","g","h">>, <<"m","e","d","i","u","m">>, <<"l","o","w">>, <<"i","n","f","o">>>>

\* one finding per asset a1, a2, ...: as many assets as the table has rows
WideFindings ==
    [i \in 1..TopN |->
        Dict(<< M(<<"s","e","v","e","r","i","t","y">>, Str(SevCycle[((i - 1) % Len(SevCycle)) + 1])),
                M(<<"a","s","s","e","t","_","c","r","i","t","i","c","a","l","i","t","y">>, Num(IF i = 1 THEN 4 ELSE 1)),
                M(<<"a","s","s","e","t">>, Str(<<"a">> \o StrOfInt(i))) >>)]

ShortInputs ==
    UNION {[1..n -> SampleFindings] : n \in 0..MaxFindings}

InputLists == ShortInputs \cup {WideFindings \o s : s \in ShortInputs}

\* reports/lynis-report.dat as the scorer finds it
LynisReports ==
    { [exists |-> FALSE, lines |-> <<>>],
      [exists |-> TRUE,
       lines |-> << <<"h","o","s","t","n","a","m","e","=","k","a","l","i">>,
                    <<"s","u","g","g","e","s","t","i","o","n","[","]","=","S","S","H","-","7","4","0","8","|","H","a","r","d","e","n"," ","S","S","H","|","-","|","-","|">>,
                    <<"w","a","r","n","i","n","g","[","]","=","F","I","R","E","-","4","5","1","2","|"," ","i","p","t","a","b","l","e","s"," ","e","m","p","t","y"," ","|">> >>] }

ScoreInit ==
    /\ findings = <<>> /\ cleaned = <<>> /\ summary = <<>> /\ assets_top = <<>>
    /\ spc = "start"
    /\ NormIdle /\ TokIdle /\ LineIdle /\ ExtIdle

\* findings = json.load(fh)
LoadFindings ==
    /\ spc = "start"
    /\ findings' \in InputLists
    /\ spc' = "loaded"
    /\ UNCHANGED <<cleaned, summary, assets_top, normVars, tokVars, lineVars, extVars>>

\* patch_linux_titles(findings) and the scoring loop; an exception leaves
\* main before anything is written
PatchAndScore ==
    /\ spc = "loaded"
    /\ \E report \in LynisReports :
       \E patched \in {patch_linux_titles(findings, report)} :
          IF patched.raised
          THEN cleaned' = <<>> /\ spc' = "raised"
          ELSE \E scored \in {ScoreFrom(patched.findings, 1, <<>>)} :
                  /\ cleaned' = scored.cleaned
                  /\ spc' = IF scored.raised THEN "raised" ELSE "scored"
    /\ UNCHANGED <<findings, summary, assets_top, normVars, tokVars, lineVars, extVars>>

\* total_score, grade, risk_summary.json
Summarize ==
    /\ spc = "scored"
    /\ summary' = Summary(cleaned)
    /\ spc' = "summarized"
    /\ UNCHANGED <<findings, cleaned, assets_top, normVars, tokVars, lineVars, extVars>>

\* by_asset and assets_top
AggregateAssets ==
    /\ spc = "summarized"
    /\ assets_top' = AssetsTop(cleaned)
    /\ spc' = "reported"
    /\ UNCHANGED <<findings, cleaned, summary, normVars, tokVars, lineVars, extVars>>

ScoreNext == LoadFindings \/ PatchAndScore \/ Summarize \/ AggregateAssets

SpecScore == ScoreInit /\ [][ScoreNext]_vars

(***************************************************************************)
(* Scoring, grading and the asset table                                    *)
(***************************************************************************)
Weight(sev) ==
    CASE sev = <<"c","r","i","t","i","c","a","l">> -> 10
      [] sev = <<"h","i","g","h">> -> 7
      [] sev = <<"m","e","d","i","u","m">> -> 4
      [] sev = <<"l","o","w">> -> 1
      [] sev = <<"i","n","f","o">> -> 0

IsNumber(x) == x.k \in {"int", "float"}
Hundredths(x) == IF x.k = "int" THEN x.v * 100 ELSE x.v

\* the factor of a record: 1.0 exactly when the key is absent, else the
\* value of the record
Factor(f, key) == IF HasKey(f, key) THEN Hundredths(Get(f, key)) ELSE 100

\* records whose severity is one of the five words and whose factors, when
\* present, are numbers
WellFormed(f) ==
    /\ f.k = "dict"
    /\ Get(f.v, <<"s","e","v","e","r","i","t","y">>).k = "str"
    /\ Get(f.v, <<"s","e","v","e","r","i","t","y">>).v \in Severities
    /\ HasKey(f.v, <<"a","s","s","e","t","_","c","r","i","t","i","c","a","l","i","t","y">>) => IsNumber(Get(f.v, <<"a","s","s","e","t","_","c","r","i","t","i","c","a","l","i","t","y">>))
    /\ HasKey(f.v, <<"c","o","n","f","i","d","e","n","c","e">>) => IsNumber(Get(f.v, <<"c","o","n","f","i","d","e","n","c","e">>))

\* C3 (as claimed): every record is scored weight x asset_criticality x
\* confidence, a factor being 1.0 exactly when it is absent from the record
\* and the record's value otherwise; high x 2.0 x 0.5 scores 7.0.
C3_ScoreIsProduct ==
    spc \in {"scored", "summarized", "reported"} =>
        \A i \in 1..Len(findings) :
            /\ WellFormed(findings[i]) =>
                  ScoreOf(cleaned[i]) * 100 =
                      Weight(Get(findings[i].v, <<"s","e","v","e","r","i","t","y">>).v)
                      * Factor(findings[i].v, <<"a","s","s","e","t","_","c","r","i","t","i","c","a","l","i","t","y">>)
                      * Factor(findings[i].v, <<"c","o","n","f","i","d","e","n","c","e">>)
            /\ findings[i] = S_high => ScoreOf(cleaned[i]) = 700

TotalScore == Get(summary, <<"s","c","o","r","e">>).v
Grade == Get(summary, <<"g","r","a","d","e">>).v

\* C4 (as claimed): the total maps to A for 0-10, B for 11-25, C for 26-50,
\* D for 51-80 and F only from 81 up, whatever total the scorer produces;
\* critical, critical, low total 21 and grade B.
C4_GradeBands ==
    spc \in {"summarized", "reported"} =>
        /\ Grade = <<"F">> => TotalScore >= 8100
        /\ Grade = <<"A">> <=> (0 <= TotalScore /\ TotalScore <= 1000)
        /\ Grade = <<"B">> <=> (1100 <= TotalScore /\ TotalScore <= 2500)
        /\ Grade = <<"C">> <=> (2600 <= TotalScore /\ TotalScore <= 5000)
        /\ Grade = <<"D">> <=> (5100 <= TotalScore /\ TotalScore <= 8000)
        /\ findings = <<S_critical, S_critical, S_low>> =>
               TotalScore = 2100 /\ Grade = <<"B">>

\* the group of a scored finding: the placeholder when the asset is missing,
\* null or empty
GroupOf(f) ==
    IF \/ ~HasKey(f.v, <<"a","s","s","e","t">>)
       \/ Get(f.v, <<"a","s","s","e","t">>) = None
       \/ Get(f.v, <<"a","s","s","e","t">>) = Str(<<>>)
    THEN Placeholder ELSE Get(f.v, <<"a","s","s","e","t">>)

Groups == {GroupOf(cleaned[i]) : i \in 1..Len(cleaned)}
GroupMembers(g) == {i \in 1..Len(cleaned) : GroupOf(cleaned[i]) = g}

RECURSIVE ScoreSum(_)
ScoreSum(S) ==
    IF S = {} THEN 0
    ELSE LET i == CHOOSE x \in S : TRUE
         IN  ScoreOf(cleaned[i]) + ScoreSum(S \ {i})

Exposed == {Get(assets_top[p], <<"a","s","s","e","t">>) : p \in 1..Len(assets_top)}

\* C10: the asset table has one row per group of the scored findings
\* (a missing or empty asset falls in the placeholder group), at most 10
\* rows and all groups when there are no more than 10; a row's count is
\* the number of the group's findings and its score their sum; rows are in
\* descending score order and no group left out scores strictly higher than
\* a row.
C10_AssetTable ==
    spc = "reported" =>
        /\ Len(assets_top) <= 10
        /\ Len(assets_top) = (IF Cardinality(Groups) < 10
                              THEN Cardinality(Groups) ELSE 10)
        /\ \A p \in 1..Len(assets_top) :
              LET g == Get(assets_top[p], <<"a","s","s","e","t">>) IN
              /\ g \in Groups
              /\ Get(assets_top[p], <<"c","o","u","n","t">>) = Num(Cardinality(GroupMembers(g)))
              /\ Get(assets_top[p], <<"s","c","o","r","e">>) = Float(ScoreSum(GroupMembers(g)))
        /\ \A p, q \in 1..Len(assets_top) :
              p < q =>
                 /\ Get(assets_top[p], <<"a","s","s","e","t">>) # Get(assets_top[q], <<"a","s","s","e","t">>)
                 /\ Get(assets_top[p], <<"s","c","o","r","e">>).v >= Get(assets_top[q], <<"s","c","o","r","e">>).v
        /\ \A g \in Groups \ Exposed :
              \A p \in 1..Len(assets_top) :
                 ScoreSum(GroupMembers(g)) <= Get(assets_top[p], <<"s","c","o","r","e">>).v

\* more groups than rows, and two findings in the placeholder group
C10_Witness ==
    /\ spc = "reported"
    /\ Cardinality(Groups) > 10
    /\ Groups \ Exposed # {}
    /\ \E p \in 1..Len(assets_top) :
          /\ Get(assets_top[p], <<"a","s","s","e","t">>) = Placeholder
          /\ Get(assets_top[p], <<"c","o","u","n","t">>).v >= 2

(***************************************************************************)
(* Malformed records and the frame of the scoring stage                    *)
(***************************************************************************)
WellFormedCount == Cardinality({i \in 1..Len(findings) : WellFormed(findings[i])})

\* C11 (as claimed): the scoring stage never ends in an exception caused by
\* a malformed record (severity or a factor missing, null, non-numeric or of
\* the wrong type, or a member that is no mapping): the run goes on to score
\* and report, and every well-formed finding of the input is among the
\* scored ones.
C11_MalformedRecordContained ==
    /\ spc # "raised"
    /\ spc \in {"scored", "summarized", "reported"} =>
          Len(cleaned) >= WellFormedCount

\* normalize.py: SCHEMA_FIELDS
SCHEMA_FIELDS == <<<<"s","o","u","r","c","e">>, <<"s","c","a","n","n","e","r">>, <<"a","s","s","e","t">>, <<"s","e","r","v","i","c","e">>, <<"c","o","n","t","r","o","l","_","i","d">>,
                   <<"t","i","t","l","e">>, <<"d","e","s","c","r","i","p","t","i","o","n">>, <<"s","t","a","t","u","s">>, <<"s","e","v","e","r","i","t","y">>,
                   <<"t","i","m","e","s","t","a","m","p">>, <<"r","a","w">>>>

\* a Unified Finding as normalized_findings.json holds it and json.load
\* returns it: the members in the order _mk_finding builds them
AsJson(uf) ==
    Dict(<< M(<<"s","o","u","r","c","e">>, uf.source), M(<<"s","c","a","n","n","e","r">>, uf.scanner),
            M(<<"a","s","s","e","t">>, uf.asset), M(<<"s","e","r","v","i","c","e">>, uf.service),
            M(<<"c","o","n","t","r","o","l","_","i","d">>, uf.control_id), M(<<"t","i","t","l","e">>, uf.title),
            M(<<"d","e","s","c","r","i","p","t","i","o","n">>, uf.description), M(<<"s","t","a","t","u","s">>, uf.status),
            M(<<"s","e","v","e","r","i","t","y">>, uf.severity), M(<<"t","i","m","e","s","t","a","m","p">>, uf.timestamp),
            M(<<"r","a","w">>, Dict(uf.raw)) >>)

MaxUnified == 3

\* Unified Findings of a cloud scan and of host reports
U_bucket ==
    AsJson(adapt_prowler(<< M(<<"c","h","e","c","k","_","i","d">>, Str(<<"s","3","_","1">>)),
                            M(<<"c","h","e","c","k","_","t","i","t","l","e">>, Str(<<"O","p","e","n"," ","b","u","c","k","e","t">>)),
                            M(<<"s","t","a","t","u","s">>, Str(<<"F","A","I","L">>)),
                            M(<<"s","e","v","e","r","i","t","y">>, Str(<<"H","i","g","h">>)),
                            M(<<"r","e","s","o","u","r","c","e">>, Str(<<"b","1">>)),
                            M(<<"s","e","r","v","i","c","e">>, Str(<<"S","3">>)) >>))
U_instance ==
    AsJson(adapt_prowler(<< M(<<"c","h","e","c","k","_","i","d">>, Str(<<"e","c","2","_","1">>)),
                            M(<<"s","e","v","e","r","i","t","y">>, Str(<<"m","e","d","i","u","m">>)),
                            M(<<"r","e","s","o","u","r","c","e">>, Str(<<"k","a","l","i","s","c","a","n","n","e","r">>)),
                            M(<<"s","e","r","v","i","c","e">>, Str(<<"l","i","n","u","x">>)) >>))
U_suggestion ==
    AsJson(adapt_lynis(parse_lynis_dat(<< <<"h","o","s","t","n","a","m","e","=","k","a","l","i","s","c","a","n","n","e","r">>,
                                          <<"s","u","g","g","e","s","t","i","o","n","[","]","=","S","S","H","-","7","4","0","8","|","H","a","r","d","e","n"," ","S","S","H","|","-","|","-","|">> >>)[1]))
U_warning ==
    AsJson(adapt_lynis(parse_lynis_dat(<< <<"h","o","s","t","n","a","m","e","=","w","e","b","0","1">>,
                                          <<"w","a","r","n","i","n","g","[","]","=","F","I","R","E","-","4","5","1","2","|"," ","i","p","t","a","b","l","e","s"," ","e","m","p","t","y"," ","|">> >>)[1]))

UnifiedFindings == {U_bucket, U_instance, U_suggestion, U_warning}

UnifiedLists == UNION {[1..n -> UnifiedFindings] : n \in 0..MaxUnified}

\* findings = json.load(fh) on the output of normalize.py
LoadUnified ==
    /\ spc = "start"
    /\ findings' \in UnifiedLists
    /\ spc' = "loaded"
    /\ UNCHANGED <<cleaned, summary, assets_top, normVars, tokVars, lineVars, extVars>>

FrameNext == LoadUnified \/ PatchAndScore \/ Summarize \/ AggregateAssets

SpecFrame == ScoreInit /\ [][FrameNext]_vars

IsHostFinding(f) == Get(f.v, <<"s","o","u","r","c","e">>) = Str(<<"l","i","n","u","x">>)

\* C12 (as claimed): after patch_linux_titles and the scoring loop every
\* finding has the source, scanner, asset, service, control_id, description,
\* status, severity, timestamp and raw it was loaded with, and its title
\* too unless it is a host finding.
C12_OnlyHostTitlesChange ==
    spc \in {"scored", "summarized", "reported"} =>
        /\ Len(cleaned) = Len(findings)
        /\ \A i \in 1..Len(findings) :
              /\ \A n \in 1..Len(SCHEMA_FIELDS) :
                    SCHEMA_FIELDS[n] # <<"t","i","t","l","e">> =>
                        Get(cleaned[i].v, SCHEMA_FIELDS[n])
                            = Get(findings[i].v, SCHEMA_FIELDS[n])
              /\ Get(cleaned[i].v, <<"t","i","t","l","e">>) # Get(findings[i].v, <<"t","i","t","l","e">>)
                    => IsHostFinding(findings[i])

(***************************************************************************)
(* main.py: the scan orchestration; scanners/aws_scanner.py,               *)
(* scanners/linux_scanner.py, utils/report_generator.py                    *)
(***************************************************************************)
MaxRc == 2
MaxItems == 2

NoFile == [exists |-> FALSE, n |-> 0]
\* a report holding n items (JSON array members, or lines)
FileOf(n) == [exists |-> TRUE, n |-> n]
ReportFiles == {NoFile} \cup {FileOf(n) : n \in 0..MaxItems}

\* subprocess.run(cmd): the child could not be started (the executable is
\* not installed: FileNotFoundError) or it ran and exited with rc
Children ==
    {[spawned |-> FALSE, rc |-> -1]} \cup {[spawned |-> TRUE, rc |-> r] : r \in 0..MaxRc}

\* the classes "except Exception" catches among those the scanners raise
ExceptionClasses == {"RuntimeError", "FileNotFoundError"}

\* run_aws_scan(): [raised, exc, aws]; found = a prowler-output-*.json
\* exists in ./output, items = the JSON objects among its lines
run_aws_scan(child, found, items, aws) ==
    IF ~child.spawned
    THEN [raised |-> TRUE, exc |-> "FileNotFoundError", aws |-> aws]
    ELSE IF child.rc # 0
    THEN [raised |-> TRUE, exc |-> "RuntimeError", aws |-> aws]
    ELSE IF ~found
    THEN [raised |-> TRUE, exc |-> "FileNotFoundError", aws |-> aws]
    ELSE [raised |-> FALSE, exc |-> "", aws |-> FileOf(items)]

\* run_linux_scan(): [raised, exc, lynis]; a failing audit may or may not
\* have left a report behind (partial)
run_linux_scan(child, partial, lines, lynis) ==
    IF ~child.spawned
    THEN [raised |-> TRUE, exc |-> "FileNotFoundError", lynis |-> lynis]
    ELSE IF child.rc # 0
    THEN [raised |-> TRUE, exc |-> "RuntimeError",
          lynis |-> IF partial THEN FileOf(lines) ELSE lynis]
    ELSE [raised |-> FALSE, exc |-> "", lynis |-> FileOf(lines)]

main_try_unguarded(out) ==
    [failed |-> FALSE, propagates |-> out.raised]

\* try: scan() except Exception as e: print(...)
main_try(out) ==
    [failed     |-> out.raised /\ out.exc \in ExceptionClasses,
     propagates |-> out.raised /\ out.exc \notin ExceptionClasses]

\* generate_summary(): the combined summary written
generate_summary(files) ==
    [exists |-> TRUE,
     aws_findings_count |-> IF files.aws.exists THEN files.aws.n ELSE -1,
     lynis_lines |-> IF files.lynis.exists THEN files.lynis.n ELSE 0]

\* main() entered; reports/ holds what earlier runs left
ScanInit ==
    /\ scan_pc = "cloud" /\ scan_log = <<>> /\ scan_rc = -1
    /\ \E a \in ReportFiles, l \in ReportFiles :
           scan_files = [aws |-> a, lynis |-> l, combined |-> NoFile]
    /\ NormIdle /\ TokIdle /\ LineIdle /\ ScoreIdle
    /\ ConvIdle /\ GradeIdle /\ MapperIdle

\* main lines 9-12
CloudScan ==
    /\ scan_pc = "cloud"
    /\ \E child \in Children, found \in BOOLEAN, items \in 0..MaxItems :
         LET out == run_aws_scan(child, found, items, scan_files.aws)
             res == main_try(out)
         IN  /\ scan_rc' = child.rc
             /\ scan_files' = [scan_files EXCEPT !.aws = out.aws]
             /\ scan_log' = IF res.failed THEN Append(scan_log, "aws_failed")
                            ELSE IF res.propagates THEN scan_log
                            ELSE Append(scan_log, "aws_saved")
             /\ scan_pc' = IF res.propagates THEN "aborted" ELSE "host"
    /\ UNCHANGED <<coreVars, convVars, gradeVars, cmVars>>

\* main lines 14-18
HostScan ==
    /\ scan_pc = "host"
    /\ ~scan_files.lynis.exists
    /\ \E child \in Children, partial \in BOOLEAN, lines \in 0..MaxItems :
         LET out == run_linux_scan(child, partial, lines, scan_files.lynis)
             res == main_try(out)
         IN  /\ scan_rc' = child.rc
             /\ scan_files' = [scan_files EXCEPT !.lynis = out.lynis]
             /\ scan_log' = IF res.failed THEN Append(scan_log, "linux_failed")
                            ELSE IF res.propagates THEN scan_log
                            ELSE Append(scan_log, "lynis_saved")
             /\ scan_pc' = IF res.propagates THEN "aborted" ELSE "summary"
    /\ UNCHANGED <<coreVars, convVars, gradeVars, cmVars>>

\* main lines 19-20
ReuseHostReport ==
    /\ scan_pc = "host"
    /\ scan_files.lynis.exists
    /\ scan_log' = Append(scan_log, "using_existing")
    /\ scan_pc' = "summary"
    /\ UNCHANGED <<scan_rc, scan_files, coreVars, convVars, gradeVars, cmVars>>

\* main lines 22-23
GenerateSummary ==
    /\ scan_pc = "summary"
    /\ scan_files' = [scan_files EXCEPT !.combined = generate_summary(scan_files)]
    /\ scan_log' = Append(scan_log, "summary_saved")
    /\ scan_pc' = "done"
    /\ UNCHANGED <<scan_rc, coreVars, convVars, gradeVars, cmVars>>

ScanNext == CloudScan \/ HostScan \/ ReuseHostReport \/ GenerateSummary

\* main is one sequential thread: each statement runs once the previous one
\* has returned, and a scanner child process is taken to exit
SpecScan == ScanInit /\ [][ScanNext]_vars /\ WF_vars(ScanNext)

Logged(msg) == \E i \in 1..Len(scan_log) : scan_log[i] = msg

\* C13: a failing scanner (non-zero exit status or an exception out of
\* run_aws_scan / run_linux_scan) ends only its own sub-scan: main never
\* aborts, the host step follows the cloud step, and generate_summary is
\* eventually called after both
C13_SubScanFailureContained ==
    /\ [](scan_pc # "aborted")
    /\ (scan_pc = "cloud") ~> (scan_pc = "host")
    /\ (scan_pc = "host") ~> (scan_pc = "summary")
    /\ (scan_pc = "summary") ~> (scan_pc = "done" /\ scan_files.combined.exists)

\* both scanners failed and the summary was still written
C13_Witness ==
    /\ scan_pc = "done"
    /\ Logged("aws_failed") /\ Logged("linux_failed")
    /\ scan_files.combined.exists

(***************************************************************************)
(* The two grading schemes: total-score grading (score_and_report.py) and  *)
(* average-risk grading                                                    *)
(***************************************************************************)
MaxSevs == 3

\* the alternate weighting scale of the average-risk grading
AVERAGE_WEIGHT == <<
    <<<<"c","r","i","t","i","c","a","l">>, 5>>, <<<<"h","i","g","h">>, 3>>, <<<<"m","e","d","i","u","m">>, 2>>,
    <<<<"l","o","w">>, 1>>, <<<<"i","n","f","o">>, 0>> >>

\* upper bounds of the mean weight per finding, in hundredths; above the
\* last one the grade is F
AVERAGE_THRESHOLDS == <<
    <<<<"A">>, 50>>, <<<<"B">>, 150>>, <<<<"C">>, 250>>, <<<<"D">>, 350>>, <<<<"E">>, 450>> >>

RECURSIVE AverageWeightSum(_, _)
AverageWeightSum(sevs, i) ==
    IF i > Len(sevs) THEN 0
    ELSE MapGet(AVERAGE_WEIGHT, sevs[i], 0) + AverageWeightSum(sevs, i + 1)

\* the mean weight per finding, to two decimals (hundredths, half up)
average_risk(sevs) ==
    (2 * 100 * AverageWeightSum(sevs, 1) + Len(sevs)) \div (2 * Len(sevs))

\* mean <= bound, compared exactly: 100 * sum <= bound * n
RECURSIVE AverageGradeFrom(_, _, _)
AverageGradeFrom(sum, n, i) ==
    IF i > Len(AVERAGE_THRESHOLDS) THEN <<"F">>
    ELSE IF 100 * sum <= AVERAGE_THRESHOLDS[i][2] * n
         THEN AVERAGE_THRESHOLDS[i][1]
         ELSE AverageGradeFrom(sum, n, i + 1)

average_risk_grade(sevs) == AverageGradeFrom(AverageWeightSum(sevs, 1), Len(sevs), 1)

total_score_grade_by_mean(sevs) ==
    [score |-> average_risk(sevs), grade |-> average_risk_grade(sevs)]

\* the total-score grading of score_and_report.py on findings that carry a
\* severity only: [score, grade] of the summary
total_score_grade(sevs) ==
    LET fs == [i \in 1..Len(sevs) |-> Dict(<< M(<<"s","e","v","e","r","i","t","y">>, Str(sevs[i])) >>)]
        s  == Summary(ScoreFrom(fs, 1, <<>>).cleaned)
    IN  [score |-> Get(s, <<"s","c","o","r","e">>).v, grade |-> Get(s, <<"g","r","a","d","e">>).v]

SeverityLists == UNION {[1..n -> Severities] : n \in 1..MaxSevs}

Ungraded == [done |-> FALSE, value |-> 0, grade |-> <<>>]

GradeInit ==
    /\ sev_list \in SeverityLists
    /\ grades = [total |-> Ungraded, average |-> Ungraded]
    /\ grade_pc = "start"
    /\ NormIdle /\ TokIdle /\ LineIdle /\ ScoreIdle
    /\ ScanIdle /\ ConvIdle /\ MapperIdle

TotalScoreGrading ==
    /\ grade_pc = "start"
    /\ ~grades.total.done
    /\ LET t == total_score_grade(sev_list) IN
       grades' = [grades EXCEPT !.total =
                     [done |-> TRUE, value |-> t.score, grade |-> t.grade]]
    /\ UNCHANGED <<sev_list, grade_pc, coreVars, scanVars, convVars, cmVars>>

AverageRiskGrading ==
    /\ grade_pc = "start"
    /\ ~grades.average.done
    /\ grades' = [grades EXCEPT !.average =
                     [done |-> TRUE, value |-> average_risk(sev_list),
                      grade |-> average_risk_grade(sev_list)]]
    /\ UNCHANGED <<sev_list, grade_pc, coreVars, scanVars, convVars, cmVars>>

GradeNext == TotalScoreGrading \/ AverageRiskGrading

SpecGrades == GradeInit /\ [][GradeNext]_vars

\* the number of list members with severity sev
Times(sev) == Cardinality({i \in 1..Len(sev_list) : sev_list[i] = sev})

CodePoints == <<"(","*","-",".","0","1","2","3","4","5","6","7","8","9",":">> \o UpperLetters \o <<"[","_">> \o LowerLetters

CodePoint(c) == CHOOSE i \in 1..Len(CodePoints) : CodePoints[i] = c

\* a < b for texts, as sorted() orders them
RECURSIVE TextLess(_, _)
TextLess(a, b) ==
    IF b = <<>> THEN FALSE
    ELSE IF a = <<>> THEN TRUE
    ELSE IF a[1] = b[1] THEN TextLess(Tail(a), Tail(b))
    ELSE CodePoint(a[1]) < CodePoint(b[1])

\* sorted(set(texts))
SortedTexts(texts) ==
    LET Rank(t) == 1 + Cardinality({u \in texts : TextLess(u, t)})
    IN  [p \in 1..Cardinality(texts) |-> CHOOSE t \in texts : Rank(t) = p]

Range(seq) == {seq[i] : i \in 1..Len(seq)}

\* the regular expressions of the sampled tables: literals, "." and "x*".
\* A pattern that starts with "*" or opens a group or a class it does not
\* close does not compile
Unclosed(p, open, close) ==
    \E i \in 1..Len(p) : p[i] = open /\ ~\E j \in (i + 1)..Len(p) : p[j] = close

ValidRegex(p) ==
    /\ ~(p # <<>> /\ p[1] = "*")
    /\ ~Unclosed(p, "(", ")")
    /\ ~Unclosed(p, "[", "]")

\* the pattern matches at the start of the text
RECURSIVE MatchHere(_, _)
RECURSIVE MatchStar(_, _, _)
MatchHere(p, s) ==
    IF p = <<>> THEN TRUE
    ELSE IF Len(p) >= 2 /\ p[2] = "*" THEN MatchStar(p[1], SubSeq(p, 3, Len(p)), s)
    ELSE IF s # <<>> /\ (p[1] = "." \/ p[1] = s[1]) THEN MatchHere(Tail(p), Tail(s))
    ELSE FALSE

MatchStar(c, p, s) ==
    \/ MatchHere(p, s)
    \/ s # <<>> /\ (c = "." \/ c = s[1]) /\ MatchStar(c, p, Tail(s))

\* the pattern as a case-insensitive regular expression on the identifier
RegexMatches(pattern, check_id) == MatchHere(Lower(pattern), Lower(check_id))

\* the regular expression compiled with no guard, before the exact match
TryPatternUnguarded(pattern, check_id) ==
    IF ~ValidRegex(pattern) THEN [hit |-> FALSE, raised |-> TRUE]
    ELSE [hit |-> pattern = check_id \/ RegexMatches(pattern, check_id),
          raised |-> FALSE]

\* one table pattern on a check identifier: exact match first, then the
\* regular expression; a pattern that does not compile is exact-match-only
TryPattern(pattern, check_id) ==
    [hit    |-> \/ pattern = check_id
                \/ ValidRegex(pattern) /\ RegexMatches(pattern, check_id),
     raised |-> FALSE]

\* source (a): the compliance metadata of the raw record, as a set of
\* control strings.  A list of strings, a list of objects with framework
\* and requirement, or a mapping of framework to requirement(s)
ControlOf(framework, requirement) == framework \o <<":">> \o requirement

NativeItem(x) ==
    CASE x.k = "str" -> {x.v}
      [] x.k = "dict" /\ Get(x.v, <<"f","r","a","m","e","w","o","r","k">>).k = "str"
                      /\ Get(x.v, <<"r","e","q","u","i","r","e","m","e","n","t">>).k = "str" ->
             {ControlOf(Get(x.v, <<"f","r","a","m","e","w","o","r","k">>).v, Get(x.v, <<"r","e","q","u","i","r","e","m","e","n","t">>).v)}
      [] OTHER -> {}

NativeMember(m) ==
    CASE m.val.k = "str"  -> {ControlOf(m.key, m.val.v)}
      [] m.val.k = "list" ->
             {ControlOf(m.key, m.val.v[i].v) :
                 i \in {j \in 1..Len(m.val.v) : m.val.v[j].k = "str"}}
      [] OTHER -> {}

native_controls(raw) ==
    LET c == Get(raw, <<"c","o","m","p","l","i","a","n","c","e">>) IN
    CASE c.k = "list" -> UNION {NativeItem(c.v[i]) : i \in 1..Len(c.v)}
      [] c.k = "dict" -> UNION {NativeMember(c.v[i]) : i \in 1..Len(c.v)}
      [] OTHER -> {}

\* the table file: missing, unparsable, or a mapping of scanner name to
\* rows [pattern, controls]; loaded once per run
load_table(file) == IF file.state = "ok" THEN file.rows ELSE <<>>

RowsOf(table, scanner) ==
    {i \in 1..Len(table) : table[i].scanner = scanner}

\* source (b)
table_controls(table, scanner, check_id) ==
    UNION {Range(table[i].controls) :
              i \in {r \in RowsOf(table, scanner) :
                        TryPattern(table[r].pattern, check_id).hit}}

compliance_mapper(scanner, check_id, raw, table) ==
    [raised   |-> \E r \in RowsOf(table, scanner) :
                      TryPattern(table[r].pattern, check_id).raised,
     controls |-> SortedTexts(native_controls(raw)
                              \cup table_controls(table, scanner, check_id))]

Row(scanner, pattern, controls) ==
    [scanner |-> scanner, pattern |-> pattern, controls |-> controls]

\* the sampled table: an exact identifier, a regular expression, two
\* patterns that do not compile, and a row of the other scanner
SampleRows == <<
    Row(<<"p","r","o","w","l","e","r">>, <<"s","3","_","1">>, <<<<"P","C","I",":","3",".","4">>>>),
    Row(<<"p","r","o","w","l","e","r">>, <<"s","3","_",".","*">>, <<<<"C","I","S",":","2",".","1">>, <<"P","C","I",":","3",".","4">>>>),
    Row(<<"p","r","o","w","l","e","r">>, <<"i","a","m","_","(">>, <<<<"N","I","S","T",":","A","C","-","3">>>>),
    Row(<<"p","r","o","w","l","e","r">>, <<"*","_","1">>, <<<<"I","S","O",":","A",".","9">>>>),
    Row(<<"l","y","n","i","s">>, <<"S","S","H","-",".","*">>, <<<<"C","I","S",":","5",".","2">>>>) >>

TableFiles == {
    [state |-> "missing", rows |-> <<>>],
    [state |-> "unparsable", rows |-> <<>>],
    [state |-> "ok", rows |-> SampleRows] }

RawRecords == {
    <<>>,
    << M(<<"c","o","m","p","l","i","a","n","c","e">>, List(<<Str(<<"C","I","S",":","2",".","1">>), Str(<<"C","I","S",":","1",".","1">>), Str(<<"C","I","S",":","2",".","1">>)>>)) >>,
    << M(<<"c","o","m","p","l","i","a","n","c","e">>, List(<<Dict(<< M(<<"f","r","a","m","e","w","o","r","k">>, Str(<<"P","C","I">>)),
                                       M(<<"r","e","q","u","i","r","e","m","e","n","t">>, Str(<<"3",".","4">>)) >>)>>)) >>,
    << M(<<"c","o","m","p","l","i","a","n","c","e">>, Dict(<< M(<<"N","I","S","T">>, List(<<Str(<<"A","C","-","3">>), Str(<<"A","C","-","6">>)>>)),
                                M(<<"C","I","S">>, Str(<<"1",".","1">>)) >>)) >> }

CheckIds == {<<"s","3","_","1">>, <<"S","3","_","B","U","C","K","E","T">>, <<"i","a","m","_","(">>, <<"i","a","m","_","1">>, <<"*","_","1">>, <<"S","S","H","-","7","4","0","8">>}

Scanners == {<<"p","r","o","w","l","e","r">>, <<"l","y","n","i","s">>}

MapperInit ==
    /\ cm_in \in [scanner : Scanners, check_id : CheckIds, raw : RawRecords,
                  file : TableFiles]
    /\ cm_out = [table |-> <<>>, raised |-> FALSE, controls |-> <<>>]
    /\ cm_pc = "start"
    /\ NormIdle /\ TokIdle /\ LineIdle /\ ScoreIdle
    /\ ScanIdle /\ ConvIdle /\ GradeIdle

LoadTable ==
    /\ cm_pc = "start"
    /\ cm_out' = [cm_out EXCEPT !.table = load_table(cm_in.file)]
    /\ cm_pc' = "table_loaded"
    /\ UNCHANGED <<cm_in, coreVars, scanVars, convVars, gradeVars>>

MapRecord ==
    /\ cm_pc = "table_loaded"
    /\ LET res == compliance_mapper(cm_in.scanner, cm_in.check_id, cm_in.raw,
                                    cm_out.table)
       IN  cm_out' = [cm_out EXCEPT !.raised = res.raised,
                                    !.controls = res.controls]
    /\ cm_pc' = "mapped"
    /\ UNCHANGED <<cm_in, coreVars, scanVars, convVars, gradeVars>>

MapperNext == LoadTable \/ MapRecord

SpecMapper == MapperInit /\ [][MapperNext]_vars

\* the rows of the table file that speak of this scanner and identifier
HitRows ==
    {r \in 1..Len(cm_in.file.rows) :
        /\ cm_in.file.rows[r].scanner = cm_in.scanner
        /\ \/ cm_in.file.rows[r].pattern = cm_in.check_id
           \/ /\ ValidRegex(cm_in.file.rows[r].pattern)
              /\ RegexMatches(cm_in.file.rows[r].pattern, cm_in.check_id)}

\* C15: the mapper never raises and returns a sorted list without
\* duplicates that holds exactly the native controls of the record and the
\* controls of every table row of the scanner whose pattern equals the
\* check identifier or matches it as a case-insensitive regular
\* expression; a pattern that does not compile still matches the identifier
\* equal to it; a missing or unparsable table contributes nothing
C15_ComplianceMapper ==
    cm_pc = "mapped" =>
        LET out == cm_out.controls
            fromTable == UNION {Range(cm_in.file.rows[r].controls) : r \in HitRows}
        IN
        /\ ~cm_out.raised
        /\ \A i \in 1..(Len(out) - 1) : TextLess(out[i], out[i + 1])
        /\ Range(out) = native_controls(cm_in.raw)
                        \cup (IF cm_in.file.state = "ok" THEN fromTable ELSE {})
        /\ \A r \in 1..Len(cm_in.file.rows) :
               /\ cm_in.file.state = "ok"
               /\ cm_in.file.rows[r].scanner = cm_in.scanner
               /\ cm_in.file.rows[r].pattern = cm_in.check_id
               => Range(cm_in.file.rows[r].controls) \subseteq Range(out)

\* a check identifier equal to a pattern that does not compile, mapped to
\* the controls of that row
C15_Witness ==
    /\ cm_pc = "mapped"
    /\ cm_in.file.state = "ok"
    /\ cm_in.scanner = <<"p","r","o","w","l","e","r">>
    /\ cm_in.check_id = <<"i","a","m","_","(">>
    /\ ~ValidRegex(cm_in.check_id)
    /\ <<"N","I","S","T",":","A","C","-","3">> \in Range(cm_out.controls)

(***************************************************************************)
(* convert_prowler_output.py, and load_aws_findings of                     *)
(* utils/build_findings.py, on reports/aws_scan.json                       *)
(***************************************************************************)
MaxRows == 2
MaxRuns == 2

\* extract_records(raw)
extract_records(raw) ==
    CASE raw.k = "list" -> raw.v
      [] raw.k = "dict" /\ (\E i \in 1..Len(raw.v) : raw.v[i].val.k = "list") ->
             raw.v[CHOOSE i \in 1..Len(raw.v) :
                      /\ raw.v[i].val.k = "list"
                      /\ \A j \in 1..(i - 1) : raw.v[j].val.k # "list"].val.v
      [] OTHER -> <<>>

\* x.lower() where x may be no text (AttributeError): [ok, v]
LowerOf(x) ==
    IF x.k = "str" THEN [ok |-> TRUE, v |-> Str(Lower(x.v))]
    ELSE [ok |-> FALSE, v |-> None]

\* "if service: str(service).lower() else None"
ServiceOf(service) ==
    IF Truthy(service) THEN Str(Lower(PyStr(service))) ELSE None

ConvertedFinding(check_id, title, severity, service, asset) ==
    << M(<<"i","d">>, check_id), M(<<"t","i","t","l","e">>, title), M(<<"s","e","v","e","r","i","t","y">>, severity),
       M(<<"s","e","r","v","i","c","e">>, service), M(<<"a","s","s","e","t">>, asset),
       M(<<"a","s","s","e","t","_","c","r","i","t","i","c","a","l","i","t","y">>, Float(100)), M(<<"c","o","n","f","i","d","e","n","c","e">>, Float(100)),
       M(<<"s","o","u","r","c","e">>, Str(<<"p","r","o","w","l","e","r">>)) >>

normalize_record_with_asset(row) ==
    LET severity == LowerOf(Or(Or(Get(row, <<"S","e","v","e","r","i","t","y">>), Get(row, <<"s","e","v","e","r","i","t","y">>)),
                               Str(<<"i","n","f","o">>)))
    IN  [ok |-> severity.ok,
         finding |-> ConvertedFinding(
             Or(Or(Or(Get(row, <<"C","h","e","c","k","I","D">>), Get(row, <<"c","h","e","c","k","_","i","d">>)),
                   Get(row, <<"C","o","n","t","r","o","l","I","D">>)), Get(row, <<"c","o","n","t","r","o","l","_","i","d">>)),
             Or(Or(Or(Or(Get(row, <<"C","h","e","c","k","T","i","t","l","e">>), Get(row, <<"c","h","e","c","k","_","t","i","t","l","e">>)),
                      Get(row, <<"M","e","s","s","a","g","e">>)), Get(row, <<"D","e","s","c","r","i","p","t","i","o","n">>)), Str(<<>>)),
             severity.v,
             ServiceOf(Or(Or(Get(row, <<"S","e","r","v","i","c","e">>), Get(row, <<"S","e","r","v","i","c","e","N","a","m","e">>)),
                          Get(row, <<"s","e","r","v","i","c","e">>))),
             Get(row, <<"R","e","s","o","u","r","c","e","I","d">>))]

\* normalize_record(row): [ok, finding]; ok = FALSE is the AttributeError
\* of .lower() on a severity that is no text
normalize_record(row) ==
    LET severity == LowerOf(Or(Or(Get(row, <<"S","e","v","e","r","i","t","y">>), Get(row, <<"s","e","v","e","r","i","t","y">>)),
                               Str(<<"i","n","f","o">>)))
    IN  [ok |-> severity.ok,
         finding |-> ConvertedFinding(
             Or(Or(Or(Get(row, <<"C","h","e","c","k","I","D">>), Get(row, <<"c","h","e","c","k","_","i","d">>)),
                   Get(row, <<"C","o","n","t","r","o","l","I","D">>)), Get(row, <<"c","o","n","t","r","o","l","_","i","d">>)),
             Or(Or(Or(Or(Get(row, <<"C","h","e","c","k","T","i","t","l","e">>), Get(row, <<"c","h","e","c","k","_","t","i","t","l","e">>)),
                      Get(row, <<"M","e","s","s","a","g","e">>)), Get(row, <<"D","e","s","c","r","i","p","t","i","o","n">>)), Str(<<>>)),
             severity.v,
             ServiceOf(Or(Or(Get(row, <<"S","e","r","v","i","c","e">>), Get(row, <<"S","e","r","v","i","c","e","N","a","m","e">>)),
                          Get(row, <<"s","e","r","v","i","c","e">>))),
             None)]

\* main, "for row in records": [ok, normalized]
RECURSIVE NormalizeRows(_, _, _)
NormalizeRows(records, i, acc) ==
    IF i > Len(records) THEN [ok |-> TRUE, normalized |-> acc]
    ELSE IF records[i].k # "dict" THEN NormalizeRows(records, i + 1, acc)
    ELSE LET res == normalize_record(records[i].v) IN
         IF ~res.ok THEN [ok |-> FALSE, normalized |-> acc]
         ELSE NormalizeRows(records, i + 1, Append(acc, Dict(res.finding)))

\* convert_prowler_output.main() on the file [exists, parses, data]:
\* [raised, file].  The file is written only once every row is converted;
\* json.loads of the json.dumps of these values gives them back
convert_main(file) ==
    IF ~file.exists \/ ~file.parses THEN [raised |-> FALSE, file |-> file]
    ELSE LET res == NormalizeRows(extract_records(file.data), 1, <<>>) IN
         IF ~res.ok THEN [raised |-> TRUE, file |-> file]
         ELSE [raised |-> FALSE,
               file |-> [exists |-> TRUE, parses |-> TRUE,
                         data |-> List(res.normalized)]]

\* load_aws_findings, "for rec in data": [raised, findings]
RECURSIVE LoadRows(_, _, _)
LoadRows(data, i, acc) ==
    IF i > Len(data) THEN [raised |-> FALSE, findings |-> acc]
    ELSE IF data[i].k # "dict" THEN LoadRows(data, i + 1, acc)
    ELSE LET rec   == data[i].v
             title == Or(Get(rec, <<"t","i","t","l","e">>), Str(<<>>))
             sev   == LowerOf(Or(Get(rec, <<"s","e","v","e","r","i","t","y">>), Str(<<"i","n","f","o">>)))
         IN  IF ~sev.ok THEN [raised |-> TRUE, findings |-> acc]
             ELSE LoadRows(data, i + 1, Append(acc, Dict(<<
                      M(<<"i","d">>, Get(rec, <<"i","d">>)),
                      M(<<"t","i","t","l","e">>, title),
                      M(<<"d","e","s","c","r","i","p","t","i","o","n">>, Or(Get(rec, <<"d","e","s","c","r","i","p","t","i","o","n">>), title)),
                      M(<<"s","e","v","e","r","i","t","y">>, sev.v),
                      M(<<"a","s","s","e","t">>, Placeholder),
                      M(<<"s","e","r","v","i","c","e">>, ServiceOf(Get(rec, <<"s","e","r","v","i","c","e">>))),
                      M(<<"a","s","s","e","t","_","c","r","i","t","i","c","a","l","i","t","y">>,
                        GetDefault(rec, <<"a","s","s","e","t","_","c","r","i","t","i","c","a","l","i","t","y">>, Float(100))),
                      M(<<"c","o","n","f","i","d","e","n","c","e">>, GetDefault(rec, <<"c","o","n","f","i","d","e","n","c","e">>, Float(100))),
                      M(<<"c","o","m","p","l","i","a","n","c","e">>, GetDefault(rec, <<"c","o","m","p","l","i","a","n","c","e">>, List(<<>>))),
                      M(<<"s","o","u","r","c","e">>, Str(<<"a","w","s">>)) >>)))

load_aws_findings(file) ==
    IF ~file.exists \/ ~file.parses \/ file.data.k # "list"
    THEN [raised |-> FALSE, findings |-> <<>>]
    ELSE LoadRows(file.data.v, 1, <<>>)

\* raw scanner rows; Row_bucket_b is Row_bucket_a of another account and
\* another resource
Row_bucket_a == Dict(<<
    M(<<"C","h","e","c","k","I","D">>, Str(<<"s","3","_","1">>)), M(<<"C","h","e","c","k","T","i","t","l","e">>, Str(<<"B","u","c","k","e","t"," ","p","u","b","l","i","c">>)),
    M(<<"S","e","v","e","r","i","t","y">>, Str(<<"H","i","g","h">>)), M(<<"S","e","r","v","i","c","e","N","a","m","e">>, Str(<<"S","3">>)),
    M(<<"A","c","c","o","u","n","t","I","d">>, Str(<<"1","1","1">>)), M(<<"R","e","s","o","u","r","c","e","I","d">>, Str(<<"b","u","c","k","e","t","-","a">>)) >>)
Row_bucket_b == Dict(<<
    M(<<"C","h","e","c","k","I","D">>, Str(<<"s","3","_","1">>)), M(<<"C","h","e","c","k","T","i","t","l","e">>, Str(<<"B","u","c","k","e","t"," ","p","u","b","l","i","c">>)),
    M(<<"S","e","v","e","r","i","t","y">>, Str(<<"H","i","g","h">>)), M(<<"S","e","r","v","i","c","e","N","a","m","e">>, Str(<<"S","3">>)),
    M(<<"A","c","c","o","u","n","t","I","d">>, Str(<<"2","2","2">>)), M(<<"R","e","s","o","u","r","c","e","I","d">>, Str(<<"b","u","c","k","e","t","-","b">>)) >>)
Row_user == Dict(<<
    M(<<"c","h","e","c","k","_","i","d">>, Str(<<"i","a","m","_","1">>)), M(<<"M","e","s","s","a","g","e">>, Str(<<"N","o"," ","M","F","A">>)),
    M(<<"s","e","v","e","r","i","t","y">>, Str(<<"l","o","w">>)), M(<<"s","e","r","v","i","c","e">>, Str(<<"i","a","m">>)),
    M(<<"a","s","s","e","t">>, Str(<<"a","c","c","t","-","9">>)), M(<<"r","e","s","o","u","r","c","e">>, Str(<<"b","o","b">>)) >>)
Row_bare == Dict(<<>>)
Row_level == Dict(<< M(<<"C","o","n","t","r","o","l","I","D">>, Str(<<"c","1">>)), M(<<"S","e","v","e","r","i","t","y">>, Num(3)) >>)
Row_port == Dict(<< M(<<"c","o","n","t","r","o","l","_","i","d">>, Str(<<"c","2">>)), M(<<"S","e","r","v","i","c","e">>, Num(22)) >>)

RawRows == {Row_bucket_a, Row_bucket_b, Row_user, Row_bare, Row_level, Row_port,
            Str(<<"o","o","p","s">>)}

RawLists == UNION {[1..n -> RawRows] : n \in 0..MaxRows}

\* what the scanner step may have left in reports/aws_scan.json
RawFiles ==
    {[exists |-> TRUE, parses |-> TRUE, data |-> List(rows)] : rows \in RawLists}
    \cup {[exists |-> TRUE, parses |-> TRUE,
           data |-> Dict(<< M(<<"c","o","u","n","t">>, Num(1)),
                            M(<<"f","i","n","d","i","n","g","s">>, List(<<Row_user>>)) >>)],
          [exists |-> TRUE, parses |-> TRUE, data |-> Str(<<"o","o","p","s">>)],
          [exists |-> TRUE, parses |-> FALSE, data |-> None],
          [exists |-> FALSE, parses |-> FALSE, data |-> None]}

ConvInit ==
    /\ conv_file \in RawFiles
    /\ conv_hist = <<conv_file>>
    /\ aws_loaded = [raised |-> FALSE, findings |-> <<>>]
    /\ conv_pc = "ready"
    /\ NormIdle /\ TokIdle /\ LineIdle /\ ScoreIdle
    /\ ScanIdle /\ GradeIdle /\ MapperIdle

\* one run of convert_prowler_output.py
Convert ==
    /\ conv_pc \in {"ready", "converted"}
    /\ Len(conv_hist) <= MaxRuns
    /\ LET res == convert_main(conv_file) IN
       /\ conv_file' = res.file
       /\ conv_hist' = Append(conv_hist, res.file)
       /\ conv_pc' = IF res.raised THEN "raised" ELSE "converted"
    /\ UNCHANGED <<aws_loaded, coreVars, scanVars, gradeVars, cmVars>>

\* build_findings.py reads the file as it is
LoadAwsFindings ==
    /\ conv_pc \in {"ready", "converted"}
    /\ aws_loaded' = load_aws_findings(conv_file)
    /\ conv_pc' = "loaded"
    /\ UNCHANGED <<conv_file, conv_hist, coreVars, scanVars, gradeVars, cmVars>>

ConvNext == Convert \/ LoadAwsFindings

SpecConvert == ConvInit /\ [][ConvNext]_vars

\* the keys of a raw row that name an account or a resource
IdFields == {<<"A","c","c","o","u","n","t","I","d">>, <<"R","e","s","o","u","r","c","e","I","d">>, <<"R","e","s","o","u","r","c","e","A","r","n">>, <<"a","c","c","o","u","n","t","_","i","d">>,
             <<"r","e","s","o","u","r","c","e","_","i","d">>, <<"r","e","s","o","u","r","c","e">>, <<"a","s","s","e","t">>}

WithoutIds(row) ==
    {<<row.v[i].key, row.v[i].val>> :
        i \in {j \in 1..Len(row.v) : row.v[j].key \notin IdFields}}

DictRows(rows) == {i \in 1..Len(rows) : rows[i].k = "dict"}

\* C16: the conversion withholds account and resource identifiers: every
\* finding it writes has a null asset, two raw rows that differ only in
\* account or resource fields are converted alike, and load_aws_findings
\* gives every record the placeholder asset whatever its asset field holds
C16_IdentifiersWithheld ==
    LET rows == extract_records(conv_hist[1].data) IN
    /\ conv_pc = "converted" /\ conv_file.exists /\ conv_file.parses =>
         /\ \A i \in 1..Len(conv_file.data.v) :
                Get(conv_file.data.v[i].v, <<"a","s","s","e","t">>) = None
         /\ Len(conv_file.data.v) = Cardinality(DictRows(rows))
         /\ \A i, j \in DictRows(rows) :
                WithoutIds(rows[i]) = WithoutIds(rows[j]) =>
                    conv_file.data.v[Cardinality({k \in DictRows(rows) : k <= i})]
                    = conv_file.data.v[Cardinality({k \in DictRows(rows) : k <= j})]
    /\ conv_pc = "loaded" =>
         \A i \in 1..Len(aws_loaded.findings) :
             Get(aws_loaded.findings[i].v, <<"a","s","s","e","t">>) = Placeholder

\* two rows of different accounts and resources converted to one and the
\* same finding
C16_Witness ==
    /\ conv_pc = "converted"
    /\ conv_hist[1].data = List(<<Row_bucket_a, Row_bucket_b>>)
    /\ Len(conv_file.data.v) = 2
    /\ conv_file.data.v[1] = conv_file.data.v[2]
    /\ Get(conv_file.data.v[1].v, <<"a","s","s","e","t">>) = None
    /\ Get(conv_file.data.v[1].v, <<"i","d">>) = Str(<<"s","3","_","1">>)

Field(f, key) == Get(f.v, key)

\* C20 (as claimed): a second run of the conversion on the file the first
\* run wrote leaves the list of findings, and the id, title, severity and
\* service of every finding, unchanged
C20_ConversionIdempotent ==
    Len(conv_hist) >= 3 /\ conv_hist[2].exists /\ conv_hist[2].parses =>
        /\ conv_hist[3] = conv_hist[2]
        /\ \A i \in 1..Len(conv_hist[2].data.v) :
               \A key \in {<<"i","d">>, <<"t","i","t","l","e">>, <<"s","e","v","e","r","i","t","y">>, <<"s","e","r","v","i","c","e">>} :
                   Field(conv_hist[3].data.v[i], key)
                   = Field(conv_hist[2].data.v[i], key)

(***************************************************************************)
(* Grades over all totals, and what deduplication keeps                    *)
(***************************************************************************)
GradeOrder == <<<<"A">>, <<"B">>, <<"C">>, <<"D">>, <<"F">>>>

GradeRank(g) == CHOOSE i \in 1..Len(GradeOrder) : GradeOrder[i] = g

\* C17 (as claimed): grade_from_score is monotone and has no gap over the
\* totals the scorer produces: the grade of the total reported is the same
\* as or worse than the grade of every smaller total (in hundredths), and
\* F is given only to totals above 80
C17_GradeMonotoneGapFree ==
    spc \in {"summarized", "reported"} =>
        /\ Grade = <<"F">> => TotalScore > 8000
        /\ \A s \in 0..TotalScore :
               GradeRank(grade_from_score(s)) <= GradeRank(Grade)

\* the host findings adapted from the .dat files handled so far
HostProduced ==
    UNION { {adapt_lynis(RecordsOf(inputs[i])[n]) :
                n \in 1..Len(RecordsOf(inputs[i]))} :
            i \in {j \in 1..Len(inputs) : IsDat(inputs[j])} }

\* C18 (as claimed): of the warning[] / suggestion[] / hint[] lines of a
\* host report, every finding is in the output of normalize_files unless an
\* identical one is: a line that differs from the others in its control id
\* or its message has a finding of its own with that control id and message
C18_HostFindingsKept ==
    pc # "raised" =>
        \A f \in HostProduced :
            \E k \in 1..Len(normalized) :
                /\ normalized[k].control_id = f.control_id
                /\ normalized[k].title = f.title
                /\ normalized[k].description = f.description

\* C19 (as claimed): findings that differ in one of source, scanner, asset,
\* service, control_id, title, status never get the same key text, also
\* when a field holds the separator or is null
C19_KeyInjective ==
    pc # "raised" =>
        \A i, j \in 1..Len(Produced(inputs)) :
            KeyTuple(Produced(inputs)[i]) # KeyTuple(Produced(inputs)[j]) =>
                KeyText(Produced(inputs)[i]) # KeyText(Produced(inputs)[j])
====
